---- MODULE Spec2Model ----
(***************************************************************************)
(* Model of the schema pipeline of swell-claude-plugins:                   *)
(*   .github/scripts/config.js          the descriptor registry SCHEMAS    *)
(*   .github/scripts/generate-types.js  validateEnv, detectChangedSchemas, *)
(*                                      uploadRawSchemas, bundleSchema,    *)
(*                                      generateTypes, processSchema, main *)
(* Both files are held in src/.github/scripts/config.js (lines 1-47 and    *)
(* 49-325).                                                                *)
(*                                                                         *)
(* Strings that the code inspects with endsWith / includes / split are     *)
(* modelled as sequences of tokens: "schema/model.json" is                 *)
(* <<"schema/", "model", ".json">>, and the empty string is <<>>.          *)
(***************************************************************************)
EXTENDS Integers, Sequences, FiniteSets, TLC

\* ------------------------------------------------------------------ bounds

\* Longest output (in lines) of the version-control query that is enumerated.
MaxDelta == 2
\* Most content blocks in a generation response.
MaxBlocks == 2
\* Most bundler invocations recorded in one behaviour of SpecBundle.
MaxCalls == 3
\* Most required environment values that are absent or empty at once.
MaxMissing == 1
\* Most runs of the session-start hook in one behaviour of SpecHook.
MaxHookRuns == 2
\* Longest output (in lines) handed to the change detector in SpecUnits.
MaxLines == 3
\* The entries of the types directory listed to the sync-types script.
MaxTypeFiles == 3
\* The commits pushed one after the other, each followed by a run of main.
MaxCommits == 2

\* ------------------------------------------------------------ string model

\* Tokens whose text contains the substring "bundle".
BundleTokens == {".bundled", "schema-bundle/", "bundle"}

\* String.prototype.endsWith on a token sequence.
EndsWith(f, suffix) == Len(f) > 0 /\ f[Len(f)] = suffix

\* String.prototype.includes(.., "bundle") on a token sequence.
IncludesBundle(f) == \E i \in 1..Len(f) : f[i] \in BundleTokens

\* path.join(dir, file) for a one-token directory.
Join(dir, file) == <<dir>> \o file

\* config.input.split("/").pop(): the bare file name of a path.
BaseName(path) == Tail(path)

\* Array.prototype.filter.
RECURSIVE FilterSeq(_, _)
FilterSeq(s, keep) ==
    IF s = <<>> THEN <<>>
    ELSE IF Head(s) \in keep THEN <<Head(s)>> \o FilterSeq(Tail(s), keep)
    ELSE FilterSeq(Tail(s), keep)

\* The elements of a sequence.
Range(s) == {s[i] : i \in 1..Len(s)}

\* ------------------------------------------------------ descriptor registry

\* A registry entry whose bundled key does not depend on the schema.
DescriptorSharedBundle(stem) ==
    [ input      |-> <<"schema/", stem, ".json">>,
      output     |-> <<"types/", stem, ".d.ts">>,
      promptFile |-> <<".github/scripts/prompts/", stem, ".prompt.txt">>,
      r2Keys     |-> [ bundled |-> <<"schema-bundle/", "schema", ".bundled", ".json">>,
                       types   |-> <<"types/", stem, ".d.ts">> ] ]

Descriptor(stem) ==
    [ input      |-> <<"schema/", stem, ".json">>,
      output     |-> <<"types/", stem, ".d.ts">>,
      promptFile |-> <<".github/scripts/prompts/", stem, ".prompt.txt">>,
      r2Keys     |-> [ bundled |-> <<"schema-bundle/", stem, ".bundled", ".json">>,
                       types   |-> <<"types/", stem, ".d.ts">> ] ]

SCHEMAS ==
    << Descriptor("model"), Descriptor("content"), Descriptor("notification"),
       Descriptor("setting"), Descriptor("webhook") >>

\* -------------------------------------------------------------- environment

RequiredEnv ==
    << "ANTHROPIC_API_KEY", "R2_ACCOUNT_ID", "R2_ACCESS_KEY_ID",
       "R2_SECRET_ACCESS_KEY", "R2_BUCKET_NAME" >>

\* A value of process.env: not set at all, set to "", or set to a real value.
EnvValues == {"unset", "empty", "set"}

\* !process.env[envVar]
Missing(e, v) == e[v] # "set"

\* The environments enumerated: every value present, or at most MaxMissing of
\* the five values absent or empty.
Environments ==
    { e \in [Range(RequiredEnv) -> EnvValues] :
        Cardinality({v \in Range(RequiredEnv) : Missing(e, v)}) <= MaxMissing }

\* validateEnv with a loop that stops one short of the last name.
FirstMissingButLast(e) ==
    IF \E i \in 1..(Len(RequiredEnv) - 1) : Missing(e, RequiredEnv[i])
    THEN CHOOSE i \in 1..(Len(RequiredEnv) - 1) :
            /\ Missing(e, RequiredEnv[i])
            /\ \A j \in 1..(i - 1) : ~Missing(e, RequiredEnv[j])
    ELSE 0

\* The first variable validateEnv finds missing (0 if none).
FirstMissing(e) ==
    IF \E i \in 1..Len(RequiredEnv) : Missing(e, RequiredEnv[i])
    THEN CHOOSE i \in 1..Len(RequiredEnv) :
            /\ Missing(e, RequiredEnv[i])
            /\ \A j \in 1..(i - 1) : ~Missing(e, RequiredEnv[j])
    ELSE 0

BUCKET_NAME == "R2_BUCKET_NAME"
CACHE_CONTROL == "public, max-age=3600"

\* ------------------------------------------------------ files and documents

\* What a path of the schema directory holds.  A schema document is reduced to
\* what the pipeline and the bundler look at: its $id and the $id it refers to.
NoId == "none"
NoRef == "none"
Ids == {"urn:a", "urn:b"}
Absent == [kind |-> "absent"]
Unreadable == [kind |-> "unreadable"]
Malformed == [kind |-> "malformed"]
Schema(id, ref) == [kind |-> "schema", id |-> id, ref |-> ref]
SchemaDocs == {Schema(id, ref) : id \in Ids \cup {NoId}, ref \in Ids \cup {NoRef}}

ModelJson == <<"model", ".json">>
ContentJson == <<"content", ".json">>
BundledJson == <<"model", ".bundled", ".json">>
ReadmeMd == <<"README", ".md">>
SchemaDirNames == {ModelJson, ContentJson, BundledJson, ReadmeMd}

\* readdirSync(dir): the entries present, in the order the file system lists them.
ReadDir(d, order) == FilterSeq(order, {f \in DOMAIN d : d[f] # Absent})

\* The filter without its test of the extension.
IsRawSchemaNameAnyExtension(f) == ~IncludesBundle(f)

\* .filter((file) => file.endsWith(".json") && !file.includes("bundle"))
IsRawSchemaName(f) == EndsWith(f, ".json") /\ ~IncludesBundle(f)
ListSchemaFiles(d, order) ==
    FilterSeq(ReadDir(d, order), {f \in DOMAIN d : IsRawSchemaName(f)})

\* What a path of the schema directory holds: nothing, if it is not listed.
FileAt(d, f) == IF f \in DOMAIN d THEN d[f] ELSE Absent

\* JSON.parse(readFileSync(path, "utf8")) succeeds.
Parses(doc) == doc.kind = "schema"

\* ------------------------------------------------------------------ bundler

\* The library's registry of schemas, by $id.
NotRegistered == [kind |-> "unregistered"]
EmptyRegistry == [i \in Ids |-> NotRegistered]

\* What the library does when a second schema is registered under an $id:
\* it replaces the first, or it throws.
DupPolicies == {"overwrite", "throw"}

\* A registration that takes effect only on a registry that is still empty.
RegisterSchemaOnce(reg, doc, policy) ==
    IF reg # EmptyRegistry THEN reg ELSE [reg EXCEPT ![doc.id] = doc]

\* registerSchema(schema) inside the try block of registerAllSchemas: a throw
\* is swallowed by the catch and leaves the registry as it was.
RegisterSchema(reg, doc, policy) ==
    IF reg[doc.id] # NotRegistered /\ policy = "throw" THEN reg
    ELSE [reg EXCEPT ![doc.id] = doc]

\* One iteration of the loop of registerAllSchemas.
RegisterFile(reg, doc, policy) ==
    IF Parses(doc) /\ doc.id # NoId THEN RegisterSchema(reg, doc, policy) ELSE reg

RECURSIVE RegisterFiles(_, _, _, _)
RegisterFiles(reg, files, d, policy) ==
    IF files = <<>> THEN reg
    ELSE RegisterFiles(RegisterFile(reg, d[Head(files)], policy), Tail(files), d, policy)

RegisterAllSchemas(reg, d, order, policy) ==
    RegisterFiles(reg, ListSchemaFiles(d, order), d, policy)

\* bundle(schemaId) of the library: the registered document and, embedded under
\* it in the order they are reached, the registered documents it refers to.
\* A reference that cannot be resolved in the registry shows as an element of
\* kind "unresolved".
RECURSIVE Reach(_, _, _)
Reach(reg, id, seen) ==
    IF reg[id] = NotRegistered THEN << [kind |-> "unresolved"] >>
    ELSE IF reg[id].ref = NoRef \/ reg[id].ref \in seen \cup {id} THEN << reg[id] >>
    ELSE << reg[id] >> \o Reach(reg, reg[id].ref, seen \cup {id})

Resolves(reg, id) == \A i \in 1..Len(Reach(reg, id, {})) : Reach(reg, id, {})[i].kind = "schema"

\* A bundle that keeps the target document and embeds nothing.
BundleRootOnly(reg, id) == [root |-> Head(Reach(reg, id, {})), defs |-> <<>>]

Bundle(reg, id) == [root |-> Head(Reach(reg, id, {})), defs |-> Tail(Reach(reg, id, {}))]

\* JSON.stringify(bundled, null, 2)
Stringify(bundled) == [json |-> bundled, indent |-> 2]

\* bundleSchema resolving, in a process that has bundled before, a schema that
\* an earlier call left in the registry instead of the target.
BundleSchemaCarried(reg, file, d, order, policy) ==
    LET reg2 == RegisterAllSchemas(reg, d, order, policy)
        main == FileAt(d, file)
        left == {i \in Ids : reg[i] # NotRegistered /\ i # main.id}
    IN  IF ~Parses(main) THEN [registry |-> reg2, status |-> "readError", out |-> <<>>]
        ELSE IF main.id = NoId THEN [registry |-> reg2, status |-> "noId", out |-> <<>>]
        ELSE IF ~Resolves(reg2, main.id)
             THEN [registry |-> reg2, status |-> "bundleError", out |-> <<>>]
        ELSE IF left # {}
             THEN [registry |-> reg2, status |-> "ok",
                   out |-> Stringify(Bundle(reg2, CHOOSE i \in left : TRUE))]
        ELSE [registry |-> reg2, status |-> "ok", out |-> Stringify(Bundle(reg2, main.id))]

\* bundleSchema testing the target's $id before it registers the siblings.
BundleSchemaCheckFirst(reg, file, d, order, policy) ==
    LET reg2 == RegisterAllSchemas(reg, d, order, policy)
        main == FileAt(d, file)
    IN  IF ~Parses(main) THEN [registry |-> reg, status |-> "readError", out |-> <<>>]
        ELSE IF main.id = NoId THEN [registry |-> reg, status |-> "noId", out |-> <<>>]
        ELSE IF ~Resolves(reg2, main.id)
             THEN [registry |-> reg2, status |-> "bundleError", out |-> <<>>]
        ELSE [registry |-> reg2, status |-> "ok", out |-> Stringify(Bundle(reg2, main.id))]

\* bundleSchema resolving against the registry as it was before this call
\* registered the siblings.
BundleSchemaStale(reg, file, d, order, policy) ==
    LET reg2 == RegisterAllSchemas(reg, d, order, policy)
        main == FileAt(d, file)
    IN  IF ~Parses(main) THEN [registry |-> reg2, status |-> "readError", out |-> <<>>]
        ELSE IF main.id = NoId THEN [registry |-> reg2, status |-> "noId", out |-> <<>>]
        ELSE IF ~Resolves(reg, main.id)
             THEN [registry |-> reg2, status |-> "bundleError", out |-> <<>>]
        ELSE [registry |-> reg2, status |-> "ok", out |-> Stringify(Bundle(reg, main.id))]

\* bundleSchema(schemaPath) on the registry reg: the registry it leaves, how it
\* ends, and the text it returns.
BundleSchema(reg, file, d, order, policy) ==
    LET reg2 == RegisterAllSchemas(reg, d, order, policy)
        main == FileAt(d, file)
    IN  IF ~Parses(main) THEN [registry |-> reg2, status |-> "readError", out |-> <<>>]
        ELSE IF main.id = NoId THEN [registry |-> reg2, status |-> "noId", out |-> <<>>]
        ELSE IF ~Resolves(reg2, main.id)
             THEN [registry |-> reg2, status |-> "bundleError", out |-> <<>>]
        ELSE [registry |-> reg2, status |-> "ok", out |-> Stringify(Bundle(reg2, main.id))]

\* ------------------------------------------------------ declaration generator

\* json2ts on a schema file: an opaque, deterministic converter.
Json2ts(doc) == [draft |-> doc]

OpenTag == "<result>"
CloseTag == "</result>"
Thinking == [type |-> "thinking"]
TextBlock(t) == [type |-> "text", text |-> t]

\* The texts a text block is drawn from.
Texts ==
    { <<"decl">>,
      <<"decl", OpenTag, "ws", "decl2", "ws", CloseTag, CloseTag>> }
Blocks == {Thinking} \cup {TextBlock(t) : t \in Texts}
Responses == UNION {[1..n -> Blocks] : n \in 0..MaxBlocks}

\* The texts result extraction is exercised with on its own: the above, the
\* empty text, a text with two spans, and a text with its tags the wrong way
\* round.
UnitTexts ==
    Texts \cup
    { <<>>,
      <<"pre", OpenTag, "decl", CloseTag, "mid", OpenTag, "decl2", CloseTag>>,
      <<CloseTag, "decl", OpenTag>> }
UnitBlocks == {Thinking} \cup {TextBlock(t) : t \in UnitTexts}
UnitResponses == UNION {[1..n -> UnitBlocks] : n \in 0..MaxBlocks}

\* The text of the last text block instead of the first.
ResponseTextLast(msg) ==
    IF \E i \in 1..Len(msg) : msg[i].type = "text"
    THEN msg[CHOOSE i \in 1..Len(msg) :
                /\ msg[i].type = "text"
                /\ \A j \in (i + 1)..Len(msg) : msg[j].type # "text"].text
    ELSE <<>>

\* msg.content.find((block) => block.type === "text")?.text || ""
ResponseText(msg) ==
    IF \E i \in 1..Len(msg) : msg[i].type = "text"
    THEN msg[CHOOSE i \in 1..Len(msg) :
                /\ msg[i].type = "text"
                /\ \A j \in 1..(i - 1) : msg[j].type # "text"].text
    ELSE <<>>

\* responseText.match(/<result>([\s\S]*?)<\/result>/): the leftmost opening tag
\* that has a closing tag after it, and the first closing tag after that.
HasMatch(t) == \E i, j \in 1..Len(t) : i < j /\ t[i] = OpenTag /\ t[j] = CloseTag
MatchOpen(t) ==
    CHOOSE i \in 1..Len(t) :
        /\ t[i] = OpenTag /\ \E j \in (i + 1)..Len(t) : t[j] = CloseTag
        /\ \A k \in 1..(i - 1) :
              ~(t[k] = OpenTag /\ \E j \in (k + 1)..Len(t) : t[j] = CloseTag)
MatchClose(t) ==
    CHOOSE j \in (MatchOpen(t) + 1)..Len(t) :
        /\ t[j] = CloseTag
        /\ \A k \in (MatchOpen(t) + 1)..(j - 1) : t[k] # CloseTag
ResultGroup(t) == SubSeq(t, MatchOpen(t) + 1, MatchClose(t) - 1)

\* String.prototype.trim: "ws" is a run of white space.
RECURSIVE TrimLeft(_)
TrimLeft(t) == IF t # <<>> /\ Head(t) = "ws" THEN TrimLeft(Tail(t)) ELSE t
RECURSIVE TrimRight(_)
TrimRight(t) ==
    IF t # <<>> /\ t[Len(t)] = "ws" THEN TrimRight(SubSeq(t, 1, Len(t) - 1)) ELSE t
Trim(t) == TrimRight(TrimLeft(t))

\* The extraction falling back to the whole response text.
ExtractResultOrRaw(t) ==
    IF HasMatch(t) THEN [found |-> TRUE, content |-> Trim(ResultGroup(t))]
    ELSE [found |-> TRUE, content |-> Trim(t)]

\* Lines 232-239 and the argument of prettier.format: whether the response
\* text holds a result span, and the trimmed content of the span.
ExtractResult(t) ==
    IF HasMatch(t) THEN [found |-> TRUE, content |-> Trim(ResultGroup(t))]
    ELSE [found |-> FALSE, content |-> <<>>]

\* prettier.format(text, {parser: "typescript", ...}) when it does not throw.
PrettierFormat(t) == [formatted |-> t]

\* ------------------------------------------------------------ change detector

BlankLine == <<>>
GitLines ==
    { BlankLine, Join("schema/", ModelJson), Join("schema/", ContentJson),
      Join("schema/", BundledJson), Join("schema/", ReadmeMd) }
GitOutputs == UNION {[1..n -> GitLines] : n \in 0..MaxDelta}

\* The lines the change detector is exercised with on its own: the above, the
\* input of a third descriptor, and a schema file of a subdirectory.
WebhookJson == <<"webhook", ".json">>
NestedModelJson == <<"schema/", "nested/", "model", ".json">>
DetectorLines == GitLines \cup {Join("schema/", WebhookJson), NestedModelJson}
DetectorOutputs == UNION {[1..n -> DetectorLines] : n \in 0..MaxLines}

\* output.trim().split("\n") on the lines of the output: blank lines at both
\* ends go, and the empty string splits into one empty string.
RECURSIVE DropBlankHead(_)
DropBlankHead(ls) ==
    IF ls # <<>> /\ Head(ls) = BlankLine THEN DropBlankHead(Tail(ls)) ELSE ls
RECURSIVE DropBlankLast(_)
DropBlankLast(ls) ==
    IF ls # <<>> /\ ls[Len(ls)] = BlankLine
    THEN DropBlankLast(SubSeq(ls, 1, Len(ls) - 1)) ELSE ls
TrimSplit(ls) ==
    IF DropBlankLast(DropBlankHead(ls)) = <<>> THEN <<BlankLine>>
    ELSE DropBlankLast(DropBlankHead(ls))

\* .filter((f) => f && f.endsWith(".json") && !f.includes("bundle"))
IsChangedSchemaLine(f) == f # BlankLine /\ EndsWith(f, ".json") /\ ~IncludesBundle(f)
ChangedFiles(out) ==
    FilterSeq(TrimSplit(out), {f \in DetectorLines : IsChangedSchemaLine(f)})

\* A descriptor selected by the bare name of a changed file, wherever it lies.
ChangedSchemasByName(files) ==
    FilterSeq(SCHEMAS, {c \in Range(SCHEMAS) :
                          \E k \in 1..Len(files) :
                              SubSeq(files[k], Len(files[k]) - 1, Len(files[k])) = BaseName(c.input)})

\* The descriptors in the order, and as often, as their inputs are listed.
ChangedSchemasInDeltaOrder(files) ==
    [k \in 1..Len(FilterSeq(files, {SCHEMAS[i].input : i \in 1..Len(SCHEMAS)})) |->
        CHOOSE c \in Range(SCHEMAS) :
            c.input = FilterSeq(files, {SCHEMAS[i].input : i \in 1..Len(SCHEMAS)})[k]]

\* Every descriptor, as soon as any schema file changed.
ChangedSchemasAll(files) == IF files = <<>> THEN <<>> ELSE SCHEMAS

\* The descriptors whose input changed and, whenever anything changed, the
\* first descriptor too, whose schema references the others.
ChangedSchemasAndReferrer(files) ==
    FilterSeq(SCHEMAS, {c \in Range(SCHEMAS) :
                          c.input \in Range(files) \/ (files # <<>> /\ c = SCHEMAS[1])})

\* SCHEMAS.filter((schema) => changedFiles.includes(schema.input))
ChangedSchemas(files) ==
    FilterSeq(SCHEMAS, {c \in Range(SCHEMAS) : c.input \in Range(files)})

\* -------------------------------------------------------------------- state

VARIABLES
    env,            \* process.env restricted to the required names
    disk,           \* the schema directory: file name -> what it holds
    dirOrder,       \* the order in which the file system lists the directory
    dupPolicy,      \* the library's behaviour on a second registration of an $id
    typesDir,       \* the declaration files: output path -> content
    bucket,         \* the remote store: key -> body of the last completed put
    pc,             \* the phase of main
    step,           \* inside processSchema: the await the process is suspended at
    changedFiles,   \* detectChangedSchemas: the filtered lines of the query
    changedSchemas, \* main: the descriptors to process
    rawFiles,       \* uploadRawSchemas: the files enumerated
    rawIdx,         \* uploadRawSchemas: the position of the loop
    idx,            \* main: the position of the processing loop
    pending,        \* the value the suspended call carries
    msg,            \* generateTypes: the response received, while it is in scope
    registry,       \* the library's schema registry of this process
    exitCode,       \* the exit code of the process (NotExited while it runs)
    calls,          \* every call that leaves the script, in order
    console,        \* the lines printed, in order
    bundleOuts,     \* bundler sessions: file -> the results bundleSchema gave
    bundleCalls,    \* bundler sessions: the targets invoked and the restarts, in order
    swellJson,      \* session-start hook: what $APP_DIR/swell.json is
    claudeMd,       \* session-start hook: what $APP_DIR/CLAUDE.md is
    jqInstalled,    \* session-start hook: `command -v jq` succeeds
    hookLog,        \* session-start hook: what each run found and how it ended
    gitOutput,      \* unit runs: the lines the version-control query printed
    response,       \* unit runs: the response of the text-generation service
    generation,     \* unit runs: how generateTypes ended on the response, and its text
    storeRuns,      \* concurrent runs: run -> how far its puts have got
    completions,    \* concurrent runs: the puts the store completed, in order
    typesListing,   \* sync-types: the names readdirSync("types") returns, in its order
    syncFiles       \* sync-types: uploadAllTypes' files, the names it kept

world == <<env, disk, dirOrder, dupPolicy>>
proc == <<pc, step, changedFiles, changedSchemas, rawFiles, rawIdx, idx, pending,
          msg, registry, exitCode>>
hook == <<swellJson, claudeMd, jqInstalled, hookLog>>
unit == <<gitOutput, response, generation>>
store == <<storeRuns, completions>>
sync == <<typesListing, syncFiles>>
session == <<bundleOuts, bundleCalls, hook, unit, store, sync>>
vars == <<world, typesDir, bucket, proc, calls, console, session>>

NotExited == -1
NoMsg == <<[type |-> "none"]>>
\* What the suspended call carries: nothing, or the text extracted from the
\* response on its way to the formatter.
NoPending == [kind |-> "none"]
Extracted(t) == [text |-> t]
Committed == [formatted |-> <<"committed">>]
OutputPaths == {SCHEMAS[i].output : i \in 1..Len(SCHEMAS)}

\* The two listings of the schema directory that are enumerated.
Forward == <<ReadmeMd, ContentJson, BundledJson, ModelJson>>
Backward == <<ModelJson, BundledJson, ContentJson, ReadmeMd>>
DirOrders == {Forward, Backward}

ModelDocs == {Absent, Malformed, Schema(NoId, NoRef), Schema("urn:a", NoRef),
              Schema("urn:a", "urn:b")}
ContentDocs == {Absent, Unreadable, Schema(NoId, NoRef), Schema("urn:b", NoRef),
                Schema("urn:a", NoRef)}
Disks ==
    { d \in [SchemaDirNames -> SchemaDocs \cup {Absent, Unreadable, Malformed}] :
        /\ d[ModelJson] \in ModelDocs
        /\ d[ContentJson] \in ContentDocs
        /\ d[BundledJson] \in {Absent, Schema("urn:b", "urn:a")}
        /\ d[ReadmeMd] = Malformed }

Out(text, arg) == [stream |-> "stdout", text |-> text, arg |-> arg]
Err(text, arg) == [stream |-> "stderr", text |-> text, arg |-> arg]
Call(op, arg) == [op |-> op, arg |-> arg]

\* A put command without the cache directive and under a key of its own prefix.
PutObjectCommandPlain(key, content, contentType) ==
    [ op |-> "put", arg |-> <<"uploads/">> \o key, Bucket |-> BUCKET_NAME, Body |-> content,
      ContentType |-> contentType, CacheControl |-> "" ]

\* new PutObjectCommand({Bucket, Key, Body, ContentType, CacheControl})
PutObjectCommand(key, content, contentType) ==
    [ op |-> "put", arg |-> key, Bucket |-> BUCKET_NAME, Body |-> content,
      ContentType |-> contentType, CacheControl |-> CACHE_CONTROL ]

\* A store that keeps what a key holds already: a put conditional on absence.
StoreIfAbsent(b, key, content) ==
    [k \in DOMAIN b \cup {key} |-> IF k \in DOMAIN b THEN b[k] ELSE content]

\* A store that a put empties of everything but the key put.
StoreOnlyLatest(b, key, content) == [k \in {key} |-> content]

\* The store after a completed put: the key holds the body, whatever it held.
Store(b, key, content) ==
    [k \in DOMAIN b \cup {key} |-> IF k = key THEN content ELSE b[k]]

\* The runs of the pipeline that put to one store at the same time: the first
\* on an older commit, the second on a newer one.
StoreRuns == {"older", "newer"}
RunAt(next, inflight, failed) == [next |-> next, inflight |-> inflight, failed |-> failed]
StoreIdle ==
    /\ storeRuns = [r \in StoreRuns |-> RunAt(1, FALSE, FALSE)]
    /\ completions = <<>>

\* The state of the sync-types variables while that script is not what runs.
SyncIdle ==
    /\ typesListing = <<>>
    /\ syncFiles = <<>>

\* The state of the unit runs' variables while they are not what is modelled.
NotRun == << <<"not run">> >>
NoText == [none |-> TRUE]
Generation(outcome, text) == [outcome |-> outcome, text |-> text]
UnitIdle ==
    /\ gitOutput = NotRun
    /\ response = <<[type |-> "none"]>>
    /\ generation = Generation("not run", NoText)

\* --------------------------------------------------------- session-start hook

\* What a path of the app directory is: nothing, a directory, or a regular file.
NoFile == [kind |-> "absent"]
Directory == [kind |-> "directory"]

\* The value of "id" in swell.json: no such key (or null), or a string.
NoAppId == "none"
AppIdValues == {NoAppId, "", "app_a", "app_b"}
\* A swell.json: whether it is valid JSON, its "id", and whether the "id" key
\* stands at the start of a line of its own or inside a longer line.
SwellJsonFile(parses, id, layout) ==
    [kind |-> "file", parses |-> parses, id |-> id, layout |-> layout]
SwellJsons ==
    {NoFile, Directory} \cup
    {SwellJsonFile(p, i, l) : p \in BOOLEAN, i \in AppIdValues, l \in {"ownLine", "inline"}}

\* jq -r '.id // empty' on a file that parses.
JqId(j) == IF j.id = NoAppId THEN "" ELSE j.id
\* sed -n 's/^[[:space:]]*"id"[[:space:]]*:[[:space:]]*"\([^"]*\)".*/\1/p' | head -n1
SedId(j) == IF j.layout = "ownLine" /\ j.id # NoAppId THEN j.id ELSE ""
\* APP_ID after the if/else of lines 9-13.
AppId(j, jq) == IF jq THEN JqId(j) ELSE SedId(j)

\* The here-document of lines 16-20 with $APP_ID expanded.
HookContent(id) ==
    [kind |-> "file",
     lines |-> << <<"- **App ID:** ", id>>, <<"- **Project:** ">>, <<"- **Tools:** ">> >>]
\* A CLAUDE.md that somebody else wrote.
UserClaudeMd == [kind |-> "file", lines |-> << <<"notes">> >>]
ClaudeMds == {NoFile, Directory, UserClaudeMd}

\* The guard of line 15 with its second test dropped.
ShouldCreateAlways(id, md) == id # ""

\* [ -n "$APP_ID" ] && [ ! -f "$APP_DIR/CLAUDE.md" ]
ShouldCreate(id, md) == id # "" /\ md.kind # "file"

\* One run, as the log keeps it: what it found, what it left, its exit status.
HookRun(code) ==
    [json |-> swellJson, jq |-> jqInstalled, before |-> claudeMd, after |-> claudeMd',
     code |-> code]

\* The state of the hook's variables while the hook is not what is modelled.
HookIdle ==
    /\ swellJson = NoFile
    /\ claudeMd = NoFile
    /\ jqInstalled = TRUE
    /\ hookLog = <<>>

ProcInit ==
    /\ pc = "Init"
    /\ step = "none"
    /\ changedFiles = <<>>
    /\ changedSchemas = <<>>
    /\ rawFiles = <<>>
    /\ rawIdx = 0
    /\ idx = 0
    /\ pending = NoPending
    /\ msg = NoMsg
    /\ registry = EmptyRegistry
    /\ exitCode = NotExited

Init ==
    /\ env \in Environments
    /\ disk \in Disks
    /\ dirOrder \in DirOrders
    /\ dupPolicy \in DupPolicies
    /\ typesDir = [p \in OutputPaths |-> Committed]
    /\ bucket = <<>>
    /\ ProcInit
    /\ calls = <<>>
    /\ console = <<>>
    /\ bundleOuts = <<>>
    /\ bundleCalls = <<>>
    /\ HookIdle
    /\ UnitIdle
    /\ StoreIdle
    /\ SyncIdle

\* An exit that starts main over instead of ending the process.
ExitAndRestart(code) ==
    /\ pc' = "Init"
    /\ exitCode' = code

\* process.exit(code), or the end of main.
Exit(code) ==
    /\ pc' = (IF code = 0 THEN "Done" ELSE "Failed")
    /\ exitCode' = code

\* A rejection of main() that is swallowed: the process ends with code 0.
CrashSwallowed(lines) ==
    /\ console' = console \o lines \o <<Err("Uncaught", <<>>)>>
    /\ pc' = "Failed"
    /\ exitCode' = 0
    /\ UNCHANGED <<step, changedFiles, changedSchemas, rawFiles, rawIdx, idx, pending,
                   msg, registry>>

\* An exception that is logged and ignored: the failed statement runs again.
CrashAndRetry(lines) ==
    /\ console' = console \o lines \o <<Err("Uncaught", <<>>)>>
    /\ UNCHANGED <<pc, exitCode, step, changedFiles, changedSchemas, rawFiles, rawIdx, idx,
                   pending, msg, registry>>

\* An exception that leaves main: the promise main() returned is rejected and
\* nothing handles it, so the runtime prints it and exits with code 1.
Crash(lines) ==
    /\ console' = console \o lines \o <<Err("Uncaught", <<>>)>>
    /\ Exit(1)
    /\ UNCHANGED <<step, changedFiles, changedSchemas, rawFiles, rawIdx, idx, pending,
                   msg, registry>>

\* -------------------------------------------------------------- validateEnv

ValidateEnv ==
    /\ pc = "Init"
    /\ IF FirstMissing(env) # 0
       THEN /\ console' = Append(console,
                    Err("Error: Missing required environment variable",
                        <<RequiredEnv[FirstMissing(env)]>>))
            /\ Exit(1)
       ELSE /\ pc' = "EnvValidated"
            /\ UNCHANGED <<console, exitCode>>
    /\ UNCHANGED <<world, typesDir, bucket, step, changedFiles, changedSchemas,
                   rawFiles, rawIdx, idx, pending, msg, registry, calls, session>>

\* ----------------------------------------------------- detectChangedSchemas

\* main returning after the detection whatever the detector found.
NothingToProcessAlways(schemas) == TRUE

\* main without its short-circuit.
NothingToProcessNever(schemas) == FALSE

\* if (changedSchemas.length === 0) return;
NothingToProcess(schemas) == Len(schemas) = 0

GitQuery == Call("git diff --name-only HEAD^ HEAD --", <<"schema/">>)

DetectChangedSchemas ==
    /\ pc = "EnvValidated"
    /\ calls' = Append(calls, GitQuery)
    /\ \/ \* execSync throws: the query exits non-zero
          /\ Crash(<<Out("Detecting changed schema files...", <<>>)>>)
       \/ \E out \in GitOutputs :
            LET files == ChangedFiles(out)
                schemas == ChangedSchemas(files)
                lines == << Out("Detecting changed schema files...", <<>>),
                            Out("Changed files:", files),
                            Out("Found schema(s) to process:",
                                [i \in 1..Len(schemas) |-> schemas[i].input]) >>
            IN  /\ changedFiles' = files
                /\ changedSchemas' = schemas
                /\ IF NothingToProcess(schemas)
                   THEN /\ console' = console \o lines \o
                            <<Out("No schema changes detected. Nothing to process.", <<>>)>>
                        /\ Exit(0)
                   ELSE /\ console' = console \o lines
                        /\ pc' = "ChangesDetected"
                        /\ UNCHANGED exitCode
                /\ UNCHANGED <<step, rawFiles, rawIdx, idx, pending, msg, registry>>
    /\ UNCHANGED <<world, typesDir, bucket, session>>

\* --------------------------------------------------------- uploadRawSchemas

\* main going on to the processing loop without awaiting uploadRawSchemas.
StartRawUploadNotAwaited ==
    /\ pc = "ChangesDetected"
    /\ pc' = "RawUploaded"
    /\ rawFiles' = ListSchemaFiles(disk, dirOrder)
    /\ rawIdx' = 1
    /\ idx' = 1
    /\ console' = Append(console, Out("--- Uploading raw schemas to R2 ---", <<>>))
    /\ UNCHANGED <<world, typesDir, bucket, step, changedFiles, changedSchemas,
                   pending, msg, registry, exitCode, calls, session>>

\* The synchronous head of uploadRawSchemas: the directory is listed once.
StartRawUpload ==
    /\ pc = "ChangesDetected"
    /\ pc' = "UploadingRaw"
    /\ rawFiles' = ListSchemaFiles(disk, dirOrder)
    /\ rawIdx' = 1
    /\ console' = Append(console, Out("--- Uploading raw schemas to R2 ---", <<>>))
    /\ UNCHANGED <<world, typesDir, bucket, step, changedFiles, changedSchemas, idx,
                   pending, msg, registry, exitCode, calls, session>>

\* One iteration of the loop: read the file, put it under its bare name.
UploadRawSchema ==
    /\ pc = "UploadingRaw"
    /\ rawIdx <= Len(rawFiles)
    /\ LET file == rawFiles[rawIdx]
           content == disk[file]
       IN  IF content = Unreadable
           THEN \* readFileSync throws
                /\ Crash(<<>>)
                /\ UNCHANGED <<bucket, calls>>
           ELSE /\ calls' = Append(calls, PutObjectCommand(file, content, "application/json"))
                /\ \/ \* r2Client.send resolves
                      /\ bucket' = Store(bucket, file, content)
                      /\ rawIdx' = rawIdx + 1
                      /\ console' = Append(console, Out("Uploading to R2:", file))
                      /\ UNCHANGED <<pc, step, changedFiles, changedSchemas, rawFiles, idx,
                                     pending, msg, registry, exitCode>>
                   \/ \* r2Client.send rejects
                      /\ Crash(<<Out("Uploading to R2:", file)>>)
                      /\ UNCHANGED bucket
    /\ UNCHANGED <<world, typesDir, session>>

\* The loop is over: uploadRawSchemas returns to main.
FinishRawUpload ==
    /\ pc = "UploadingRaw"
    /\ rawIdx > Len(rawFiles)
    /\ pc' = "RawUploaded"
    /\ idx' = 1
    /\ console' = Append(console, Out("Uploaded raw schema files", rawFiles))
    /\ UNCHANGED <<world, typesDir, bucket, step, changedFiles, changedSchemas, rawFiles,
                   rawIdx, pending, msg, registry, exitCode, calls, session>>

\* ------------------------------------------------- processSchema, generateTypes

\* A catch block that logs and lets the loop go on with the next descriptor.
FailSchemaAndContinue(config, lines) ==
    /\ console' = console \o lines \o <<Err("Failed to process", config.input)>>
    /\ pc' = "ProcessingSchema"
    /\ step' = "start"
    /\ idx' = idx + 1
    /\ UNCHANGED <<changedFiles, changedSchemas, rawFiles, rawIdx, pending, exitCode>>

\* A catch block that logs and runs the same descriptor once more.
FailSchemaAndRetry(config, lines) ==
    /\ console' = console \o lines \o <<Err("Failed to process", config.input)>>
    /\ pc' = "ProcessingSchema"
    /\ step' = "start"
    /\ UNCHANGED <<changedFiles, changedSchemas, rawFiles, rawIdx, idx, pending, exitCode>>

\* catch (error) { console.error(`Failed to process ${schema.input}`); process.exit(1) }
FailSchema(config, lines) ==
    /\ console' = console \o lines \o <<Err("Failed to process", config.input)>>
    /\ Exit(1)
    /\ UNCHANGED <<step, changedFiles, changedSchemas, rawFiles, rawIdx, idx, pending>>

\* The loop running over the list from its end.
SchemaAtReversed(schemas, i) == schemas[Len(schemas) + 1 - i]

\* for (const schema of changedSchemas): the element the i-th iteration takes.
SchemaAt(schemas, i) == schemas[i]

\* The loop of main is between two iterations.
AtSchemaStart ==
    \/ pc = "RawUploaded"
    \/ pc = "ProcessingSchema" /\ step = "start"

\* processSchema up to the first await: json2ts runs, the prompt is read and the
\* request goes out to the text-generation service.
StartSchema ==
    /\ AtSchemaStart
    /\ idx <= Len(changedSchemas)
    /\ LET config == SchemaAt(changedSchemas, idx)
           doc == FileAt(disk, BaseName(config.input))
           head == << Out("--- Processing ---", config.input),
                      Out("Converting to TypeScript...", <<>>) >>
           ran == calls \o << Call("generateTypes", config.input),
                              Call("json2ts", BaseName(config.input)) >>
       IN  \/ \* json2ts exits non-zero: always on a file it cannot parse
              /\ calls' = ran
              /\ FailSchema(config, head)
              /\ UNCHANGED msg
           \/ \* the prompt file cannot be read
              /\ Parses(doc)
              /\ calls' = ran
              /\ FailSchema(config, head \o <<Out("Sending to Claude for cleanup...", <<>>)>>)
              /\ UNCHANGED msg
           \/ /\ Parses(doc)
              /\ calls' = ran \o <<Call("messages.create", config.input)>>
              /\ console' = console \o head \o <<Out("Sending to Claude for cleanup...", <<>>)>>
              /\ pc' = "ProcessingSchema"
              /\ step' = "awaitClaude"
              /\ pending' = Json2ts(doc)
              /\ UNCHANGED <<changedFiles, changedSchemas, rawFiles, rawIdx, idx, msg,
                             exitCode>>
    /\ UNCHANGED <<world, typesDir, bucket, registry, session>>

\* anthropic.messages.create settles; the result span is extracted and handed
\* to prettier.
ClaudeReturns ==
    /\ pc = "ProcessingSchema"
    /\ step = "awaitClaude"
    /\ LET config == SchemaAt(changedSchemas, idx)
       IN  \/ \* the request rejects
              /\ FailSchema(config, <<>>)
              /\ UNCHANGED msg
           \/ \E m \in Responses :
                LET resultMatch == ExtractResult(ResponseText(m))
                IN  IF ~resultMatch.found
                    THEN /\ FailSchema(config,
                                <<Err("No <result> tag found in Claude's response", <<>>)>>)
                         /\ msg' = m
                    ELSE /\ step' = "awaitPrettier"
                         /\ msg' = m
                         /\ pending' = Extracted(resultMatch.content)
                         /\ UNCHANGED <<pc, changedFiles, changedSchemas, rawFiles, rawIdx,
                                        idx, exitCode, console>>
    /\ UNCHANGED <<world, typesDir, bucket, registry, calls, session>>

\* processSchema going on to bundleSchema without writing the declaration.
PrettierReturnsUnwritten ==
    /\ pc = "ProcessingSchema"
    /\ step = "awaitPrettier"
    /\ LET config == SchemaAt(changedSchemas, idx)
           typesContent == PrettierFormat(pending.text)
           written == <<Out("Written types to", config.output),
                        Out("Bundling schema...", <<>>)>>
           r == BundleSchema(registry, BaseName(config.input), disk, dirOrder, dupPolicy)
       IN  \/ \* prettier rejects, or writeFileSync throws
              /\ FailSchema(config, <<>>)
              /\ msg' = NoMsg
              /\ UNCHANGED <<typesDir, registry, calls>>
           \/ /\ typesDir' = typesDir
              /\ registry' = r.registry
              /\ msg' = NoMsg
              /\ IF r.status \in {"readError", "noId"}
                 THEN /\ calls' = calls \o <<
                                               Call("bundleSchema", config.input) >>
                      /\ FailSchema(config, written)
                 ELSE /\ calls' = calls \o <<
                                               Call("bundleSchema", config.input),
                                               Call("bundle", config.input) >>
                      /\ console' = console \o written
                      /\ pending' = r
                      /\ step' = "awaitBundle"
                      /\ UNCHANGED <<pc, changedFiles, changedSchemas, rawFiles, rawIdx,
                                     idx, exitCode>>
    /\ UNCHANGED <<world, bucket, session>>

\* prettier.format settles; generateTypes returns; the declaration is written;
\* bundleSchema runs up to its await of the library's bundle.
PrettierReturns ==
    /\ pc = "ProcessingSchema"
    /\ step = "awaitPrettier"
    /\ LET config == SchemaAt(changedSchemas, idx)
           typesContent == PrettierFormat(pending.text)
           written == <<Out("Written types to", config.output),
                        Out("Bundling schema...", <<>>)>>
           r == BundleSchema(registry, BaseName(config.input), disk, dirOrder, dupPolicy)
       IN  \/ \* prettier rejects
              /\ FailSchema(config, <<>>)
              /\ msg' = NoMsg
              /\ UNCHANGED <<typesDir, registry, calls>>
           \/ \* writeFileSync throws
              /\ calls' = Append(calls, Call("writeFile", config.output))
              /\ FailSchema(config, <<>>)
              /\ msg' = NoMsg
              /\ UNCHANGED <<typesDir, registry>>
           \/ /\ typesDir' = [typesDir EXCEPT ![config.output] = typesContent]
              /\ registry' = r.registry
              /\ msg' = NoMsg
              /\ IF r.status \in {"readError", "noId"}
                 THEN /\ calls' = calls \o << Call("writeFile", config.output),
                                               Call("bundleSchema", config.input) >>
                      /\ FailSchema(config, written)
                 ELSE /\ calls' = calls \o << Call("writeFile", config.output),
                                               Call("bundleSchema", config.input),
                                               Call("bundle", config.input) >>
                      /\ console' = console \o written
                      /\ pending' = r
                      /\ step' = "awaitBundle"
                      /\ UNCHANGED <<pc, changedFiles, changedSchemas, rawFiles, rawIdx,
                                     idx, exitCode>>
    /\ UNCHANGED <<world, bucket, session>>

\* processSchema putting the bundle under the descriptor's types key.
BundleReturnsToTypesKey ==
    /\ pc = "ProcessingSchema"
    /\ step = "awaitBundle"
    /\ LET config == SchemaAt(changedSchemas, idx)
       IN  IF pending.status # "ok"
           THEN /\ FailSchema(config, <<>>)
                /\ UNCHANGED <<calls, msg>>
           ELSE /\ calls' = Append(calls,
                        PutObjectCommand(config.r2Keys.types, pending.out, "application/json"))
                /\ console' = Append(console, Out("Uploading to R2:", config.r2Keys.bundled))
                /\ pending' = pending.out
                /\ step' = "awaitPut"
                /\ UNCHANGED <<pc, changedFiles, changedSchemas, rawFiles, rawIdx, idx,
                               msg, exitCode>>
    /\ UNCHANGED <<world, typesDir, bucket, registry, session>>

\* uploadToR2 sending its put without printing its line.
BundleReturnsUnannounced ==
    /\ pc = "ProcessingSchema"
    /\ step = "awaitBundle"
    /\ LET config == SchemaAt(changedSchemas, idx)
       IN  IF pending.status # "ok"
           THEN /\ FailSchema(config, <<>>)
                /\ UNCHANGED <<calls, msg>>
           ELSE /\ calls' = Append(calls,
                        PutObjectCommand(config.r2Keys.bundled, pending.out, "application/json"))
                /\ UNCHANGED console
                /\ pending' = pending.out
                /\ step' = "awaitPut"
                /\ UNCHANGED <<pc, changedFiles, changedSchemas, rawFiles, rawIdx, idx,
                               msg, exitCode>>
    /\ UNCHANGED <<world, typesDir, bucket, registry, session>>

\* The library's bundle settles; bundleSchema returns; uploadToR2 sends the put.
BundleReturns ==
    /\ pc = "ProcessingSchema"
    /\ step = "awaitBundle"
    /\ LET config == SchemaAt(changedSchemas, idx)
       IN  IF pending.status # "ok"
           THEN /\ FailSchema(config, <<>>)
                /\ UNCHANGED <<calls, msg>>
           ELSE /\ calls' = Append(calls,
                        PutObjectCommand(config.r2Keys.bundled, pending.out, "application/json"))
                /\ console' = Append(console, Out("Uploading to R2:", config.r2Keys.bundled))
                /\ pending' = pending.out
                /\ step' = "awaitPut"
                /\ UNCHANGED <<pc, changedFiles, changedSchemas, rawFiles, rawIdx, idx,
                               msg, exitCode>>
    /\ UNCHANGED <<world, typesDir, bucket, registry, session>>

\* processSchema swallowing a rejected put: the loop of main goes on as if the
\* bundle had been stored.
PutReturnsIgnoringRejection ==
    /\ pc = "ProcessingSchema"
    /\ step = "awaitPut"
    /\ \/ UNCHANGED bucket
       \/ bucket' = Store(bucket, SchemaAt(changedSchemas, idx).r2Keys.bundled, pending)
    /\ pending' = NoPending
    /\ idx' = idx + 1
    /\ step' = "start"
    /\ console' = Append(console, Out("Uploaded bundled schema", <<>>))
    /\ UNCHANGED <<pc, changedFiles, changedSchemas, rawFiles, rawIdx, msg, exitCode>>
    /\ UNCHANGED <<world, typesDir, registry, calls, session>>

\* r2Client.send settles; processSchema returns; the loop of main goes on.
PutReturns ==
    /\ pc = "ProcessingSchema"
    /\ step = "awaitPut"
    /\ LET config == SchemaAt(changedSchemas, idx)
       IN  \/ \* the put rejects
              /\ FailSchema(config, <<>>)
              /\ UNCHANGED <<bucket, msg>>
           \/ /\ bucket' = Store(bucket, config.r2Keys.bundled, pending)
              /\ pending' = NoPending
              /\ idx' = idx + 1
              /\ step' = "start"
              /\ console' = Append(console, Out("Uploaded bundled schema", <<>>))
              /\ UNCHANGED <<pc, changedFiles, changedSchemas, rawFiles, rawIdx, msg,
                             exitCode>>
    /\ UNCHANGED <<world, typesDir, registry, calls, session>>

\* The loop of main is over: the summary is printed and main returns.
FinishMain ==
    /\ AtSchemaStart
    /\ idx > Len(changedSchemas)
    /\ console' = Append(console, Out("All changed schemas processed successfully", <<>>))
    /\ Exit(0)
    /\ step' = "none"
    /\ UNCHANGED <<world, typesDir, bucket, changedFiles, changedSchemas, rawFiles, rawIdx,
                   idx, pending, msg, registry, calls, session>>

\* ---------------------------------------------------------- bundler sessions

\* bundleSchema applied, again and again, to the targets of one unchanged
\* directory: inside one process the registry is kept from call to call, and a
\* new process starts from an empty registry.
BundleTargets == {ModelJson, ContentJson}
BundleDisks ==
    { d \in [SchemaDirNames -> SchemaDocs \cup {Absent, Unreadable, Malformed}] :
        /\ d[BundledJson] \in {Absent, Schema("urn:b", "urn:a")}
        /\ d[ReadmeMd] = Malformed }

BundleInit ==
    /\ env = [v \in Range(RequiredEnv) |-> "set"]
    /\ disk \in BundleDisks
    /\ dirOrder \in DirOrders
    /\ dupPolicy \in DupPolicies
    /\ typesDir = [p \in OutputPaths |-> Committed]
    /\ bucket = <<>>
    /\ pc = "Bundler"
    /\ step = "none"
    /\ changedFiles = <<>>
    /\ changedSchemas = <<>>
    /\ rawFiles = <<>>
    /\ rawIdx = 0
    /\ idx = 0
    /\ pending = NoPending
    /\ msg = NoMsg
    /\ registry = EmptyRegistry
    /\ exitCode = NotExited
    /\ calls = <<>>
    /\ console = <<>>
    /\ bundleOuts = [f \in BundleTargets |-> <<>>]
    /\ bundleCalls = <<>>
    /\ HookIdle
    /\ UnitIdle
    /\ StoreIdle
    /\ SyncIdle

Restart == <<"restart">>
Invocations == {k \in 1..Len(bundleCalls) : bundleCalls[k] # Restart}

InvokeBundleSchema ==
    /\ pc = "Bundler"
    /\ Cardinality(Invocations) < MaxCalls
    /\ \E file \in BundleTargets :
         LET r == BundleSchema(registry, file, disk, dirOrder, dupPolicy)
         IN  /\ registry' = r.registry
             /\ bundleOuts' = [bundleOuts EXCEPT
                                 ![file] = Append(@, [status |-> r.status, out |-> r.out])]
             /\ bundleCalls' = Append(bundleCalls, file)
    /\ UNCHANGED <<world, typesDir, bucket, pc, step, changedFiles, changedSchemas,
                   rawFiles, rawIdx, idx, pending, msg, exitCode, calls, console, hook, unit,
                   store, sync>>

\* The process ends and another one starts on the same directory.
RestartProcess ==
    /\ pc = "Bundler"
    /\ bundleCalls # <<>>
    /\ bundleCalls[Len(bundleCalls)] # Restart
    /\ Cardinality(Invocations) < MaxCalls
    /\ registry' = EmptyRegistry
    /\ bundleCalls' = Append(bundleCalls, Restart)
    /\ UNCHANGED <<world, typesDir, bucket, pc, step, changedFiles, changedSchemas,
                   rawFiles, rawIdx, idx, pending, msg, exitCode, calls, console,
                   bundleOuts, hook, unit, store, sync>>

BundleNext == InvokeBundleSchema \/ RestartProcess

SpecBundle == BundleInit /\ [][BundleNext]_vars

\* -------------------------------------------------- session-start hook runs

HookInit ==
    /\ env = [v \in Range(RequiredEnv) |-> "set"]
    /\ disk = [f \in SchemaDirNames |-> Absent]
    /\ dirOrder = Forward
    /\ dupPolicy = "overwrite"
    /\ typesDir = [p \in OutputPaths |-> Committed]
    /\ bucket = <<>>
    /\ pc = "Hook"
    /\ step = "none"
    /\ changedFiles = <<>>
    /\ changedSchemas = <<>>
    /\ rawFiles = <<>>
    /\ rawIdx = 0
    /\ idx = 0
    /\ pending = NoPending
    /\ msg = NoMsg
    /\ registry = EmptyRegistry
    /\ exitCode = NotExited
    /\ calls = <<>>
    /\ console = <<>>
    /\ bundleOuts = <<>>
    /\ bundleCalls = <<>>
    /\ swellJson \in SwellJsons
    /\ claudeMd \in ClaudeMds
    /\ jqInstalled \in BOOLEAN
    /\ hookLog = <<>>
    /\ UnitIdle
    /\ StoreIdle
    /\ SyncIdle

\* One run of the hook, from its first line to its exit.
RunHook ==
    /\ pc = "Hook"
    /\ Len(hookLog) < MaxHookRuns
    /\ IF swellJson.kind # "file"
       THEN \* [ -f swell.json ] fails: straight to exit 0
            /\ claudeMd' = claudeMd
            /\ hookLog' = Append(hookLog, HookRun(0))
       ELSE IF jqInstalled /\ ~swellJson.parses
       THEN \* jq exits non-zero inside the assignment: set -e ends the script
            /\ claudeMd' = claudeMd
            /\ hookLog' = Append(hookLog, HookRun(2))
       ELSE IF ~ShouldCreate(AppId(swellJson, jqInstalled), claudeMd)
       THEN /\ claudeMd' = claudeMd
            /\ hookLog' = Append(hookLog, HookRun(0))
       ELSE IF claudeMd = Directory
       THEN \* the redirection fails: set -e ends the script
            /\ claudeMd' = claudeMd
            /\ hookLog' = Append(hookLog, HookRun(1))
       ELSE \/ /\ claudeMd' = HookContent(AppId(swellJson, jqInstalled))
               /\ hookLog' = Append(hookLog, HookRun(0))
            \/ \* the app directory cannot be written to
               /\ claudeMd' = claudeMd
               /\ hookLog' = Append(hookLog, HookRun(1))
    /\ UNCHANGED <<world, typesDir, bucket, proc, calls, console, bundleOuts, bundleCalls,
                   swellJson, jqInstalled, unit, store, sync>>

\* Between two sessions the developer rewrites swell.json.
EditSwellJson ==
    /\ pc = "Hook"
    /\ hookLog # <<>>
    /\ Len(hookLog) < MaxHookRuns
    /\ \E j \in SwellJsons : j # swellJson /\ swellJson' = j
    /\ UNCHANGED <<world, typesDir, bucket, proc, calls, console, bundleOuts, bundleCalls,
                   claudeMd, jqInstalled, hookLog, unit, store, sync>>

HookNext == RunHook \/ EditSwellJson

SpecHook == HookInit /\ [][HookNext]_vars

\* ---------------------------------------------------------------- unit runs

\* detectChangedSchemas and the tail of generateTypes, each applied once to an
\* input of its own.
UnitInit ==
    /\ env = [v \in Range(RequiredEnv) |-> "set"]
    /\ disk = [f \in SchemaDirNames |-> Absent]
    /\ dirOrder = Forward
    /\ dupPolicy = "overwrite"
    /\ typesDir = [p \in OutputPaths |-> Committed]
    /\ bucket = <<>>
    /\ pc = "Units"
    /\ step = "none"
    /\ changedFiles = <<>>
    /\ changedSchemas = <<>>
    /\ rawFiles = <<>>
    /\ rawIdx = 0
    /\ idx = 0
    /\ pending = NoPending
    /\ msg = NoMsg
    /\ registry = EmptyRegistry
    /\ exitCode = NotExited
    /\ calls = <<>>
    /\ console = <<>>
    /\ bundleOuts = <<>>
    /\ bundleCalls = <<>>
    /\ HookIdle
    /\ UnitIdle
    /\ StoreIdle
    /\ SyncIdle

\* detectChangedSchemas on what the version-control query printed.
RunDetector ==
    /\ pc = "Units"
    /\ \E out \in DetectorOutputs :
         /\ gitOutput' = out
         /\ changedFiles' = ChangedFiles(out)
         /\ changedSchemas' = ChangedSchemas(ChangedFiles(out))
    /\ pc' = "UnitDone"
    /\ UNCHANGED <<world, typesDir, bucket, step, rawFiles, rawIdx, idx, pending, msg,
                   registry, exitCode, calls, console, bundleOuts, bundleCalls, hook,
                   response, generation, store, sync>>

\* Lines 231-250 of generateTypes on a response of the service.
RunGeneration ==
    /\ pc = "Units"
    /\ \E m \in UnitResponses :
         /\ response' = m
         /\ IF ~ExtractResult(ResponseText(m)).found
            THEN generation' = Generation("noResult", NoText)
            ELSE \/ generation' =
                        Generation("ok", PrettierFormat(ExtractResult(ResponseText(m)).content))
                 \/ \* prettier.format rejects: the span is not valid TypeScript
                    generation' = Generation("formatError", NoText)
    /\ pc' = "UnitDone"
    /\ UNCHANGED <<world, typesDir, bucket, step, changedFiles, changedSchemas, rawFiles,
                   rawIdx, idx, pending, msg, registry, exitCode, calls, console,
                   bundleOuts, bundleCalls, hook, gitOutput, store, sync>>

UnitNext == RunDetector \/ RunGeneration

SpecUnits == UnitInit /\ [][UnitNext]_vars

\* ----------------------------------------------------------- concurrent runs

\* Two runs of main put to the same store.  Each has passed its detection with
\* every schema file of its commit changed; what is modelled is its sequence
\* of puts: the raw files, then the bundle of each descriptor.
Edited(doc) == IF doc.kind = "schema" THEN Schema(doc.id, doc.id) ELSE doc
\* The schema directory as the run's commit has it.
RunDisk(r) == IF r = "older" THEN disk ELSE [f \in DOMAIN disk |-> Edited(disk[f])]
RunSchemas(r) ==
    FilterSeq(SCHEMAS, {c \in Range(SCHEMAS) : FileAt(RunDisk(r), BaseName(c.input)) # Absent})
RawPutsOf(r) ==
    [k \in 1..Len(ListSchemaFiles(RunDisk(r), dirOrder)) |->
        PutObjectCommand(ListSchemaFiles(RunDisk(r), dirOrder)[k],
                         RunDisk(r)[ListSchemaFiles(RunDisk(r), dirOrder)[k]],
                         "application/json")]
BundlePutsOf(r) ==
    [k \in 1..Len(RunSchemas(r)) |->
        PutObjectCommand(RunSchemas(r)[k].r2Keys.bundled,
                         BundleSchema(EmptyRegistry, BaseName(RunSchemas(r)[k].input),
                                      RunDisk(r), dirOrder, dupPolicy).out,
                         "application/json")]
RunPuts(r) == RawPutsOf(r) \o BundlePutsOf(r)

StoreDisks ==
    { d \in [SchemaDirNames -> SchemaDocs \cup {Absent, Unreadable, Malformed}] :
        /\ d[ModelJson] = Schema("urn:a", NoRef)
        /\ d[ContentJson] \in {Absent, Schema("urn:b", NoRef)}
        /\ d[BundledJson] = Absent
        /\ d[ReadmeMd] = Malformed }

StoreInit ==
    /\ env = [v \in Range(RequiredEnv) |-> "set"]
    /\ disk \in StoreDisks
    /\ dirOrder \in DirOrders
    /\ dupPolicy = "overwrite"
    /\ typesDir = [p \in OutputPaths |-> Committed]
    /\ bucket = <<>>
    /\ pc = "Store"
    /\ step = "none"
    /\ changedFiles = <<>>
    /\ changedSchemas = <<>>
    /\ rawFiles = <<>>
    /\ rawIdx = 0
    /\ idx = 0
    /\ pending = NoPending
    /\ msg = NoMsg
    /\ registry = EmptyRegistry
    /\ exitCode = NotExited
    /\ calls = <<>>
    /\ console = <<>>
    /\ bundleOuts = <<>>
    /\ bundleCalls = <<>>
    /\ HookIdle
    /\ UnitIdle
    /\ StoreIdle
    /\ SyncIdle

StoreFrame ==
    UNCHANGED <<world, typesDir, proc, calls, console, bundleOuts, bundleCalls, hook, unit,
                sync>>

\* uploadToR2 of a run sends its next put: r2Client.send(command).
SendPut(r) ==
    /\ pc = "Store"
    /\ ~storeRuns[r].inflight /\ ~storeRuns[r].failed
    /\ storeRuns[r].next <= Len(RunPuts(r))
    /\ storeRuns' = [storeRuns EXCEPT ![r].inflight = TRUE]
    /\ UNCHANGED <<bucket, completions>>
    /\ StoreFrame

\* The store completes the put in flight of a run: the key holds its body.
PutCompletes(r) ==
    /\ pc = "Store"
    /\ storeRuns[r].inflight
    /\ LET command == RunPuts(r)[storeRuns[r].next]
       IN  /\ bucket' = Store(bucket, command.arg, command.Body)
           /\ completions' = Append(completions,
                                    [run |-> r, key |-> command.arg, body |-> command.Body])
    /\ storeRuns' = [storeRuns EXCEPT ![r] = RunAt(@.next + 1, FALSE, FALSE)]
    /\ StoreFrame

\* The put in flight of a run is rejected: the run ends.
PutRejects(r) ==
    /\ pc = "Store"
    /\ storeRuns[r].inflight
    /\ storeRuns' = [storeRuns EXCEPT ![r] = RunAt(@.next, FALSE, TRUE)]
    /\ UNCHANGED <<bucket, completions>>
    /\ StoreFrame

StoreNext == \E r \in StoreRuns : SendPut(r) \/ PutCompletes(r) \/ PutRejects(r)

SpecStore == StoreInit /\ [][StoreNext]_vars

\* ------------------------------------------------------- sync-types script

\* The four names validateEnv of the sync-types script requires.
SyncRequiredEnv ==
    << "R2_ACCOUNT_ID", "R2_ACCESS_KEY_ID", "R2_SECRET_ACCESS_KEY", "R2_BUCKET_NAME" >>

\* The position of the first required name that is absent or empty, 0 if none.
SyncFirstMissing(e) ==
    IF \E i \in 1..Len(SyncRequiredEnv) : Missing(e, SyncRequiredEnv[i])
    THEN CHOOSE i \in 1..Len(SyncRequiredEnv) :
            /\ Missing(e, SyncRequiredEnv[i])
            /\ \A j \in 1..(i - 1) : ~Missing(e, SyncRequiredEnv[j])
    ELSE 0

\* The names an entry of the types directory may have: declaration files of
\* registered descriptors, a declaration file no descriptor names, a plain
\* TypeScript file, a backup of a declaration file, and a directory whose name
\* ends like a declaration file.
TypeNames ==
    { <<"model", ".d.ts">>, <<"content", ".d.ts">>, <<"extra", ".d.ts">>,
      <<"index", ".ts">>, <<"notes", ".d.ts", ".bak">>, <<"vendor", ".d.ts">> }
TypeDirectories == { <<"vendor", ".d.ts">> }

\* What readdirSync may return: up to MaxTypeFiles distinct names in any order.
TypesListings ==
    UNION { { l \in [1..n -> TypeNames] : \A i, j \in 1..n : i # j => l[i] # l[j] }
            : n \in 0..MaxTypeFiles }

\* readFileSync(join(TYPES_DIR, file), "utf8"): the text of a file; it throws
\* on a directory.
ReadTypeFile(file) ==
    IF file \in TypeDirectories THEN Unreadable
    ELSE [kind |-> "text", of |-> file]

\* A filter that keeps every name that mentions the declaration extension.
TypeFilesMentioning(listing) ==
    FilterSeq(listing, {f \in TypeNames : \E i \in 1..Len(f) : f[i] = ".d.ts"})

\* readdirSync(TYPES_DIR).filter((file) => file.endsWith(".d.ts"))
TypeFiles(listing) ==
    FilterSeq(listing, {f \in TypeNames : EndsWith(f, ".d.ts")})

\* The bare file name as the key.
TypeKeyBare(file) == file

\* `types/${file}`
TypeKey(file) == <<"types/">> \o file

\* The command uploadToR2 of the sync-types script builds.
SyncPutObjectCommand(key, content, contentType) ==
    [ op |-> "put", arg |-> key, Bucket |-> BUCKET_NAME, Body |-> content,
      ContentType |-> contentType, CacheControl |-> CACHE_CONTROL ]

\* The catch of the sync-types main.
SyncFail(lines, error) ==
    /\ console' = lines \o <<Err("Failed to upload types:", error)>>
    /\ Exit(1)

\* The loop of uploadAllTypes from position i up to its next await: it reads
\* the file and sends its put, or returns the count to main past the last file.
SyncLoop(i, files, lines) ==
    /\ idx' = i
    /\ IF i > Len(files)
       THEN /\ console' = lines \o
                   <<Out("Successfully uploaded type file(s) to R2", Len(files))>>
            /\ Exit(0)
            /\ UNCHANGED calls
       ELSE LET content == ReadTypeFile(files[i])
            IN  IF content = Unreadable
                THEN /\ SyncFail(lines, "read failed")
                     /\ UNCHANGED calls
                ELSE /\ console' = lines \o <<Out("Uploading:", TypeKey(files[i]))>>
                     /\ calls' = Append(calls,
                            SyncPutObjectCommand(TypeKey(files[i]), content,
                                                 "application/typescript"))
                     /\ pc' = "SyncAwaitPut"
                     /\ UNCHANGED exitCode

SyncInit ==
    /\ env \in Environments
    /\ disk = [f \in SchemaDirNames |-> Absent]
    /\ dirOrder = Forward
    /\ dupPolicy = "overwrite"
    /\ typesDir = [p \in OutputPaths |-> Committed]
    /\ bucket = <<>>
    /\ pc = "SyncStart"
    /\ step = "none"
    /\ changedFiles = <<>>
    /\ changedSchemas = <<>>
    /\ rawFiles = <<>>
    /\ rawIdx = 0
    /\ idx = 0
    /\ pending = NoPending
    /\ msg = NoMsg
    /\ registry = EmptyRegistry
    /\ exitCode = NotExited
    /\ calls = <<>>
    /\ console = <<>>
    /\ bundleOuts = <<>>
    /\ bundleCalls = <<>>
    /\ HookIdle
    /\ UnitIdle
    /\ StoreIdle
    /\ typesListing \in TypesListings
    /\ syncFiles = <<>>

SyncFrame ==
    UNCHANGED <<world, typesDir, step, changedFiles, changedSchemas, rawFiles, rawIdx,
                pending, msg, registry, bundleOuts, bundleCalls, hook, unit, store,
                typesListing>>

\* main of the sync-types script up to its first await: validateEnv, the
\* listing of the directory, and the first pass of the loop.
SyncStart ==
    /\ pc = "SyncStart"
    /\ IF SyncFirstMissing(env) # 0
       THEN /\ console' = Append(console,
                    Err("Error: Missing required environment variable",
                        <<SyncRequiredEnv[SyncFirstMissing(env)]>>))
            /\ Exit(1)
            /\ UNCHANGED <<idx, calls, syncFiles>>
       ELSE LET files == TypeFiles(typesListing)
            IN  /\ syncFiles' = files
                /\ SyncLoop(1, files,
                      console \o <<Out("Uploading types to R2 bucket:", BUCKET_NAME),
                                   Out("Reading type files from", "types"),
                                   Out("Found type file(s) to upload", Len(files))>>)
    /\ UNCHANGED bucket
    /\ SyncFrame

\* await r2Client.send(command) settles: the store completed the put and the
\* loop goes on, or the put was rejected and the catch of main ends the process.
SyncPutSettles ==
    /\ pc = "SyncAwaitPut"
    /\ \/ /\ bucket' = Store(bucket, calls[Len(calls)].arg, calls[Len(calls)].Body)
          /\ SyncLoop(idx + 1, syncFiles, console)
       \/ /\ SyncFail(console, "put rejected")
          /\ UNCHANGED <<bucket, idx, calls>>
    /\ UNCHANGED syncFiles
    /\ SyncFrame

SyncNext == SyncStart \/ SyncPutSettles

SpecSync == SyncInit /\ [][SyncNext]_vars

\* ------------------------------------------------------------ successive runs

\* Commits are pushed one after the other and main runs on each, against the
\* store the runs before it left.  A run is followed from its detection
\* through its puts; the generation of a declaration is one step that
\* succeeds or throws.

\* The schema directory as a commit may have it.
DeltaDisks ==
    { d \in [SchemaDirNames -> SchemaDocs \cup {Absent, Unreadable, Malformed}] :
        /\ d[ModelJson] \in {Schema("urn:a", NoRef), Schema("urn:a", "urn:b")}
        /\ d[ContentJson] \in {Absent, Schema("urn:b", NoRef), Schema("urn:b", "urn:b")}
        /\ d[BundledJson] = Absent
        /\ d[ReadmeMd] = Malformed }

\* git diff --name-only HEAD^ HEAD -- schema/ : the paths whose content differs
\* between the commit and its parent, one per line.
DiffNameOnly(parent, head) ==
    LET differing == {f \in SchemaDirNames : parent[f] # head[f]}
        names == FilterSeq(Forward, differing)
    IN  [k \in 1..Len(names) |-> Join("schema/", names[k])]

\* The runs started so far: each issues the version-control query once.
RunsStarted == Cardinality({k \in 1..Len(calls) : calls[k] = GitQuery})

DeltaInit ==
    /\ env = [v \in Range(RequiredEnv) |-> "set"]
    /\ disk = [f \in SchemaDirNames |-> Absent]
    /\ dirOrder \in DirOrders
    /\ dupPolicy = "overwrite"
    /\ typesDir = [p \in OutputPaths |-> Committed]
    /\ bucket = <<>>
    /\ pc = "Idle"
    /\ step = "none"
    /\ changedFiles = <<>>
    /\ changedSchemas = <<>>
    /\ rawFiles = <<>>
    /\ rawIdx = 0
    /\ idx = 0
    /\ pending = NoPending
    /\ msg = NoMsg
    /\ registry = EmptyRegistry
    /\ exitCode = NotExited
    /\ calls = <<>>
    /\ console = <<>>
    /\ bundleOuts = <<>>
    /\ bundleCalls = <<>>
    /\ HookIdle
    /\ UnitIdle
    /\ StoreIdle
    /\ SyncIdle

DeltaFrame ==
    UNCHANGED <<env, dirOrder, dupPolicy, step, pending, msg, console, session>>

\* A commit is pushed and main starts on it: validateEnv, detectChangedSchemas,
\* the short-circuit, and the enumeration of uploadRawSchemas.
PushAndDetect ==
    /\ pc = "Idle"
    /\ RunsStarted < MaxCommits
    /\ \E head \in DeltaDisks \ {disk} :
          LET files == ChangedFiles(DiffNameOnly(disk, head))
              schemas == ChangedSchemas(files)
          IN  /\ disk' = head
              /\ calls' = Append(calls, GitQuery)
              /\ changedFiles' = files
              /\ changedSchemas' = schemas
              /\ registry' = EmptyRegistry
              /\ IF NothingToProcess(schemas)
                 THEN /\ pc' = "Idle"
                      /\ exitCode' = 0
                      /\ UNCHANGED <<rawFiles, rawIdx, idx>>
                 ELSE /\ pc' = "Running"
                      /\ exitCode' = NotExited
                      /\ rawFiles' = ListSchemaFiles(head, dirOrder)
                      /\ rawIdx' = 1
                      /\ idx' = 1
    /\ UNCHANGED <<typesDir, bucket>>
    /\ DeltaFrame

\* The run ends on an exception.
DeltaFail ==
    /\ pc' = "Idle"
    /\ exitCode' = 1
    /\ UNCHANGED <<rawIdx, idx>>

\* uploadRawSchemas puts its next file.
DeltaRawPut ==
    /\ pc = "Running"
    /\ rawIdx <= Len(rawFiles)
    /\ LET file == rawFiles[rawIdx]
       IN  /\ calls' = Append(calls, PutObjectCommand(file, disk[file], "application/json"))
           /\ \/ /\ bucket' = Store(bucket, file, disk[file])
                 /\ rawIdx' = rawIdx + 1
                 /\ UNCHANGED <<pc, exitCode, idx>>
              \/ /\ DeltaFail
                 /\ UNCHANGED bucket
    /\ UNCHANGED <<disk, typesDir, changedFiles, changedSchemas, rawFiles, registry>>
    /\ DeltaFrame

\* processSchema on the next changed descriptor: the declaration is generated
\* and written, the schema is bundled from the disk, the bundle is put.
DeltaProcessSchema ==
    /\ pc = "Running"
    /\ rawIdx > Len(rawFiles)
    /\ idx <= Len(changedSchemas)
    /\ LET config == SchemaAt(changedSchemas, idx)
           r == BundleSchema(registry, BaseName(config.input), disk, dirOrder, dupPolicy)
           written == [typesDir EXCEPT ![config.output] = PrettierFormat(<<"decl">>)]
       IN  \/ \* generateTypes throws
              /\ calls' = Append(calls, Call("generateTypes", config.input))
              /\ DeltaFail
              /\ UNCHANGED <<typesDir, bucket, registry>>
           \/ /\ Parses(FileAt(disk, BaseName(config.input)))
              /\ typesDir' = written
              /\ registry' = r.registry
              /\ IF r.status # "ok"
                 THEN /\ calls' = calls \o << Call("generateTypes", config.input),
                                               Call("writeFile", config.output),
                                               Call("bundleSchema", config.input) >>
                      /\ DeltaFail
                      /\ UNCHANGED bucket
                 ELSE /\ calls' = calls \o
                            << Call("generateTypes", config.input),
                               Call("writeFile", config.output),
                               Call("bundleSchema", config.input),
                               PutObjectCommand(config.r2Keys.bundled, r.out,
                                                "application/json") >>
                      /\ \/ /\ bucket' = Store(bucket, config.r2Keys.bundled, r.out)
                            /\ idx' = idx + 1
                            /\ UNCHANGED <<pc, exitCode, rawIdx>>
                         \/ /\ DeltaFail
                            /\ UNCHANGED bucket
    /\ UNCHANGED <<disk, changedFiles, changedSchemas, rawFiles>>
    /\ DeltaFrame

\* The loop of main is over: the run ends with code 0.
DeltaFinish ==
    /\ pc = "Running"
    /\ rawIdx > Len(rawFiles)
    /\ idx > Len(changedSchemas)
    /\ pc' = "Idle"
    /\ exitCode' = 0
    /\ UNCHANGED <<disk, typesDir, bucket, changedFiles, changedSchemas, rawFiles, rawIdx,
                   idx, registry, calls>>
    /\ DeltaFrame

DeltaNext == PushAndDetect \/ DeltaRawPut \/ DeltaProcessSchema \/ DeltaFinish

SpecDelta == DeltaInit /\ [][DeltaNext]_vars

\* ------------------------------------------------------------- specification

Next ==
    \/ ValidateEnv
    \/ DetectChangedSchemas
    \/ StartRawUpload
    \/ UploadRawSchema
    \/ FinishRawUpload
    \/ StartSchema
    \/ ClaudeReturns
    \/ PrettierReturns
    \/ BundleReturns
    \/ PutReturns
    \/ FinishMain

Spec == Init /\ [][Next]_vars

\* A run in which a step that stays enabled is eventually taken: the
\* synchronous stretches of main run on, and every awaited external call (the
\* generation request, the formatter, the library's bundle, a put) eventually
\* resolves or rejects.
\* Every step of a run moves this position on.
position == <<pc, step, idx, rawIdx>>
SpecLive == Init /\ [][Next]_vars /\ WF_position(Next)

\* ------------------------------------------------------------------- claims

\* The positions of the log that hold a call of the operation on the argument.
CallsOf(op, arg) == {k \in 1..Len(calls) : calls[k].op = op /\ calls[k].arg = arg}
PutCalls == {k \in 1..Len(calls) : calls[k].op = "put"}
NetworkCalls == {k \in 1..Len(calls) : calls[k].op \in {"put", "messages.create"}}
GitCalls == {k \in 1..Len(calls) : calls[k] = GitQuery}
Printed(stream, text) ==
    \E k \in 1..Len(console) : console[k].stream = stream /\ console[k].text = text
\* detectChangedSchemas returned its list to main.
DetectorReturned == Printed("stdout", "Found schema(s) to process:")
EnvValid == \A v \in Range(RequiredEnv) : env[v] = "set"
ModelInput == Join("schema/", ModelJson)
ContentInput == Join("schema/", ContentJson)

\* The positions of the log that hold a step of processing the descriptor.
StepsOf(c) ==
    {k \in 1..Len(calls) :
        \/ /\ calls[k].op \in {"generateTypes", "messages.create", "bundleSchema", "bundle"}
           /\ calls[k].arg = c.input
        \/ calls[k].op = "json2ts" /\ calls[k].arg = BaseName(c.input)
        \/ calls[k].op = "writeFile" /\ calls[k].arg = c.output
        \/ calls[k].op = "put" /\ calls[k].arg = c.r2Keys.bundled}

\* C1: a registered descriptor whose input path is not in the filtered
\* changed-file list is never the target of generateTypes (nor of the request
\* to the text-generation service) nor of bundleSchema (nor of the library's
\* bundle).
C1_UnchangedNeverTargeted ==
    \A i \in 1..Len(SCHEMAS) :
        SCHEMAS[i].input \notin Range(changedFiles) =>
            /\ CallsOf("generateTypes", SCHEMAS[i].input) = {}
            /\ CallsOf("messages.create", SCHEMAS[i].input) = {}
            /\ CallsOf("bundleSchema", SCHEMAS[i].input) = {}
            /\ CallsOf("bundle", SCHEMAS[i].input) = {}

\* A run that processed schema/model.json to the end while schema/content.json,
\* a readable schema on disk, was not in the changed-file list.
C1_Witness ==
    /\ pc = "Done"
    /\ Range(changedFiles) = {ModelInput}
    /\ Parses(disk[ContentJson])
    /\ CallsOf("generateTypes", ModelInput) # {}
    /\ CallsOf("bundleSchema", ModelInput) # {}

\* C2: when the change detector returns an empty list, the run issues no put,
\* contacts neither the store nor the text-generation service, and exits with
\* code 0.
C2_EmptyChangeSetIsNoOp ==
    (DetectorReturned /\ changedSchemas = <<>>) =>
        /\ pc = "Done"
        /\ exitCode = 0
        /\ PutCalls = {}
        /\ NetworkCalls = {}
        /\ DOMAIN bucket = {}

\* The detector has returned an empty list and the process has ended.
C2_Witness ==
    /\ DetectorReturned
    /\ changedSchemas = <<>>
    /\ GitCalls # {}
    /\ exitCode = 0

\* C3: when one of the five required environment values is absent (or empty),
\* the process exits with a non-zero code and never invokes the
\* version-control query, the text-generation service or a put.
C3_EnvCheckedFirst ==
    (\E v \in Range(RequiredEnv) : env[v] # "set") =>
        /\ calls = <<>>
        /\ DOMAIN bucket = {}
        /\ pc \in {"Init", "Failed"}
        /\ pc = "Failed" => exitCode = 1
        /\ pc = "Init" => exitCode = NotExited

\* All values but the last one checked are present, and the process has exited.
C3_Witness ==
    /\ env["R2_BUCKET_NAME"] = "unset"
    /\ \A v \in Range(RequiredEnv) \ {"R2_BUCKET_NAME"} : env[v] = "set"
    /\ pc = "Failed"
    /\ exitCode = 1

\* The catch block of main has logged a failure of the i-th changed descriptor.
FailedAt(i) ==
    \E k \in 1..Len(console) :
        /\ console[k].text = "Failed to process"
        /\ console[k].arg = changedSchemas[i].input

\* C4: once processing of the i-th changed descriptor has thrown, the run has
\* ended with a non-zero code, no step of a later descriptor has been executed,
\* and no step of descriptor i has been executed twice.
C4_FailFast ==
    \A i \in 1..Len(changedSchemas) :
        FailedAt(i) =>
            /\ pc = "Failed"
            /\ exitCode = 1
            /\ \A j \in (i + 1)..Len(changedSchemas) : StepsOf(changedSchemas[j]) = {}
            /\ \A k, l \in StepsOf(changedSchemas[i]) : calls[k].op = calls[l].op => k = l

\* The first of two changed descriptors failed after its declaration was written.
C4_Witness ==
    /\ Len(changedSchemas) = 2
    /\ FailedAt(1)
    /\ CallsOf("writeFile", changedSchemas[1].output) # {}

\* The text has no <result>...</result> span.
NoSpan(t) == ~\E i, j \in 1..Len(t) : i < j /\ t[i] = "<result>" /\ t[j] = "</result>"
ResponseHasNoSpan(m) == \A b \in 1..Len(m) : m[b].type = "text" => NoSpan(m[b].text)

\* C5: when the response received for a descriptor holds no result span, the
\* run has ended with a non-zero code and no declaration has been written to
\* the descriptor's output path.
C5_NoSpanNoDeclaration ==
    (msg # NoMsg /\ ResponseHasNoSpan(msg)) =>
        /\ pc = "Failed"
        /\ exitCode = 1
        /\ CallsOf("writeFile", changedSchemas[idx].output) = {}
        /\ typesDir[changedSchemas[idx].output] = Committed

\* The second changed descriptor received a text block without a span, after
\* the first one was processed to the end.
C5_Witness ==
    /\ idx = 2
    /\ msg # NoMsg
    /\ ResponseHasNoSpan(msg)
    /\ \E b \in 1..Len(msg) : msg[b].type = "text" /\ msg[b].text # <<>>
    /\ changedSchemas[1].r2Keys.bundled \in DOMAIN bucket

\* C6 (as claimed): for a changed descriptor whose schema document declares
\* no $id, no request to the text-generation service and no put of its bundle
\* is ever issued for it.
C6_NoIdFailsBeforeNetwork ==
    \A i \in 1..Len(changedSchemas) :
        LET c == changedSchemas[i]
            doc == FileAt(disk, BaseName(c.input))
        IN  (Parses(doc) /\ doc.id = NoId) =>
                /\ CallsOf("messages.create", c.input) = {}
                /\ CallsOf("put", c.r2Keys.bundled) = {}

\* The position of the first call of generateTypes (past the end if none).
FirstGenerate ==
    IF \E k \in 1..Len(calls) : calls[k].op = "generateTypes"
    THEN CHOOSE k \in 1..Len(calls) :
            /\ calls[k].op = "generateTypes"
            /\ \A j \in 1..(k - 1) : calls[j].op # "generateTypes"
    ELSE Len(calls) + 1
\* The keys of the puts issued by the raw-schema upload.
RawPutKeys == {calls[k].arg : k \in {j \in PutCalls : j < FirstGenerate}}
\* uploadRawSchemas returned to main.
RawStageDone == Printed("stdout", "Uploaded raw schema files")
OnDisk == {f \in DOMAIN disk : disk[f] # Absent}

\* C7 (as claimed): once the raw-schema upload is over, the keys it put are
\* all the .json files of the schema directory.
C7_RawKeysAreAllJsonFiles ==
    RawStageDone => RawPutKeys = {f \in OnDisk : EndsWith(f, ".json")}

\* C7 (amended): once the raw-schema upload is over, the keys it put are the
\* files of the schema directory whose name ends in .json and does not contain
\* "bundle", whichever descriptors changed.
C7_RawKeysAreUnbundledJsonFiles ==
    RawStageDone =>
        RawPutKeys = {f \in OnDisk : EndsWith(f, ".json") /\ ~IncludesBundle(f)}

\* One descriptor changed, two schema files were uploaded, and a bundled
\* artifact lying in the directory was not.
C7_Witness ==
    /\ RawStageDone
    /\ Len(changedSchemas) = 1
    /\ Cardinality(RawPutKeys) = 2
    /\ disk[BundledJson] # Absent
    /\ BundledJson \notin RawPutKeys

\* Every changed descriptor has its declaration written and its bundle stored.
AllProcessed ==
    \A i \in 1..Len(changedSchemas) :
        /\ CallsOf("writeFile", changedSchemas[i].output) # {}
        /\ changedSchemas[i].r2Keys.bundled \in DOMAIN bucket

\* C8: the process has exited exactly in the phases Done and Failed; its code
\* is 0 exactly when the environment is valid, the detector returned, and the
\* change set is empty or every changed descriptor was processed; it is
\* non-zero after a missing environment value and after a per-schema failure.
C8_ExitCode ==
    /\ exitCode # NotExited <=> pc \in {"Done", "Failed"}
    /\ exitCode # NotExited =>
         /\ exitCode \in {0, 1}
         /\ exitCode = 0 <=>
               /\ EnvValid
               /\ DetectorReturned
               /\ changedSchemas = <<>> \/ AllProcessed
         /\ ~EnvValid => exitCode # 0
         /\ Printed("stderr", "Failed to process") => exitCode # 0

\* Two changed descriptors were processed and the process exited with code 0.
C8_Witness ==
    /\ exitCode = 0
    /\ Len(changedSchemas) = 2
    /\ AllProcessed

\* The steps of processing one descriptor, by operation and argument.
ExpectedSteps(c) ==
    << Call("generateTypes", c.input), Call("json2ts", BaseName(c.input)),
       Call("messages.create", c.input), Call("writeFile", c.output),
       Call("bundleSchema", c.input), Call("bundle", c.input),
       Call("put", c.r2Keys.bundled) >>
RECURSIVE ExpectedCalls(_)
ExpectedCalls(schemas) ==
    IF schemas = <<>> THEN <<>>
    ELSE ExpectedSteps(Head(schemas)) \o ExpectedCalls(Tail(schemas))
\* The calls of the log from the first generateTypes on.
ProcessingCalls ==
    [k \in 1..(Len(calls) + 1 - FirstGenerate) |->
        Call(calls[k + FirstGenerate - 1].op, calls[k + FirstGenerate - 1].arg)]

\* C9: the steps executed are, in order, a prefix of the steps of the changed
\* descriptors taken one after the other in detection order; and when a step
\* of descriptor i+1 has been executed, the declaration of descriptor i is
\* written and its bundle is stored.
C9_SequentialInDetectionOrder ==
    /\ Len(ProcessingCalls) <= Len(ExpectedCalls(changedSchemas))
    /\ ProcessingCalls = SubSeq(ExpectedCalls(changedSchemas), 1, Len(ProcessingCalls))
    /\ \A i \in 1..(Len(changedSchemas) - 1) :
          StepsOf(changedSchemas[i + 1]) # {} =>
              /\ typesDir[changedSchemas[i].output] # Committed
              /\ changedSchemas[i].r2Keys.bundled \in DOMAIN bucket

\* Two descriptors were processed to the end: fourteen steps.
C9_Witness ==
    /\ pc = "Done"
    /\ Len(changedSchemas) = 2
    /\ Len(ProcessingCalls) = 14

\* C10: on an unchanged directory, every invocation of bundleSchema on a
\* target gives the same result, in one process and across processes.
C10_BundlingDeterministic ==
    \A f \in DOMAIN bundleOuts :
        \A i, j \in 1..Len(bundleOuts[f]) : bundleOuts[f][i] = bundleOuts[f][j]

\* A target whose bundle embeds a sibling was bundled before and after a
\* restart of the process, and twice in one process.
C10_Witness ==
    \E f \in DOMAIN bundleOuts :
        /\ Len(bundleOuts[f]) = 3
        /\ bundleOuts[f][1].status = "ok"
        /\ bundleOuts[f][1].out.json.defs # <<>>
        /\ bundleCalls = <<f, Restart, f, f>>

\* The documents a bundle text holds: the target and the embedded ones.
BundleDocs(out) == <<out.json.root>> \o out.json.defs
\* Every reference inside the bundle names a document the bundle holds.
SelfContained(out) ==
    \A k \in 1..Len(BundleDocs(out)) :
        /\ BundleDocs(out)[k].kind = "schema"
        /\ BundleDocs(out)[k].ref # NoRef =>
              \E l \in 1..Len(BundleDocs(out)) : BundleDocs(out)[l].id = BundleDocs(out)[k].ref
\* The directory holds two schema documents with distinct $id, and the one in
\* file a refers to the $id of the one in file b.
RefersTo(a, b) ==
    /\ Parses(disk[a]) /\ Parses(disk[b])
    /\ disk[a].id # NoId /\ disk[b].id # NoId /\ disk[a].id # disk[b].id
    /\ disk[a].ref = disk[b].id

\* C11: when the directory holds two schema documents A and B and A refers to
\* B by B's $id, every bundle of A succeeds, holds B's content embedded, and
\* holds no reference to a document that is not part of the bundle.
C11_BundleEmbedsReferenced ==
    \A a, b \in BundleTargets :
        RefersTo(a, b) =>
            \A k \in 1..Len(bundleOuts[a]) :
                /\ bundleOuts[a][k].status = "ok"
                /\ bundleOuts[a][k].out.json.root = disk[a]
                /\ \E l \in 1..Len(bundleOuts[a][k].out.json.defs) :
                      bundleOuts[a][k].out.json.defs[l] = disk[b]
                /\ SelfContained(bundleOuts[a][k].out)

\* model.json refers to the $id of content.json, which refers to nothing, and
\* model.json has been bundled.
C11_Witness ==
    /\ RefersTo(ModelJson, ContentJson)
    /\ disk[ContentJson].ref = NoRef
    /\ Len(bundleOuts[ModelJson]) > 0
    /\ bundleOuts[ModelJson][1].out.json.defs = <<disk[ContentJson]>>

\* A sibling that registerAllSchemas cannot register: it cannot be read, it
\* cannot be parsed, or it declares no $id.
BadSibling(doc) == doc \in {Unreadable, Malformed} \/ (Parses(doc) /\ doc.id = NoId)
\* The directory without the siblings of f that cannot be registered.
WithoutBadSiblings(d, f) ==
    [g \in DOMAIN d |-> IF g # f /\ BadSibling(d[g]) THEN Absent ELSE d[g]]
WellFormedTarget(f) == Parses(disk[f]) /\ disk[f].id # NoId
\* What a call of bundleSchema gives to its caller.
Outcome(r) == [status |-> r.status, out |-> r.out]
\* bundleSchema has run in this process.
Registered == bundleCalls # <<>> /\ bundleCalls[Len(bundleCalls)] # Restart
\* No two files that registerAllSchemas registers declare the same $id.
DistinctIds ==
    \A f, g \in Range(ListSchemaFiles(disk, dirOrder)) :
        (f # g /\ ~BadSibling(disk[f]) /\ ~BadSibling(disk[g])) => disk[f].id # disk[g].id

\* Siblings that cannot be registered are skipped: every bundling of a
\* well-formed target ends as it would with those siblings absent, and never
\* with an error of reading or registering.
SkipsBadSiblings ==
    \A f \in BundleTargets :
        (WellFormedTarget(f) /\ bundleOuts[f] # <<>>) =>
            LET alone == Outcome(BundleSchema(EmptyRegistry, f, WithoutBadSiblings(disk, f),
                                              dirOrder, dupPolicy))
            IN  \A k \in 1..Len(bundleOuts[f]) :
                    /\ bundleOuts[f][k].status \in {"ok", "bundleError"}
                    /\ bundleOuts[f][k] = alone
\* Registering the siblings once more leaves the registry as it is.
RegistrationIdempotent ==
    Registered => RegisterAllSchemas(registry, disk, dirOrder, dupPolicy) = registry
\* The registry, and every result, are what any listing order gives.
OrderIndependent ==
    \A o \in DirOrders :
        /\ Registered => registry = RegisterAllSchemas(EmptyRegistry, disk, o, dupPolicy)
        /\ \A f \in BundleTargets :
              bundleOuts[f] # <<>> =>
                  LET fresh == Outcome(BundleSchema(EmptyRegistry, f, disk, o, dupPolicy))
                  IN  \A k \in 1..Len(bundleOuts[f]) : bundleOuts[f][k] = fresh

\* C12 (as claimed): siblings that cannot be registered are skipped without
\* aborting the bundling of a well-formed target, repeating the registration
\* changes nothing, and the result is the same for every listing order.
C12_RegistrationOrderFree ==
    /\ SkipsBadSiblings
    /\ RegistrationIdempotent
    /\ OrderIndependent

\* C12 (amended): as above, the result being the same for every listing order
\* when no two registered siblings declare the same $id.
C12_RegistrationOrderFreeDistinctIds ==
    /\ SkipsBadSiblings
    /\ RegistrationIdempotent
    /\ DistinctIds => OrderIndependent

\* content.json cannot be parsed; bundleSchema ran for it and then for
\* model.json, whose bundle was produced.
C12_Witness ==
    /\ disk[ContentJson] = Malformed
    /\ WellFormedTarget(ModelJson)
    /\ bundleCalls = <<ContentJson, ModelJson>>
    /\ bundleOuts[ContentJson][1].status = "readError"
    /\ bundleOuts[ModelJson][1].status = "ok"

\* The run ended in validateEnv on a missing environment value.
FailedOnEnv == pc = "Failed" /\ ~EnvValid
\* The run ended in bundleSchema on a target document that declares no $id.
FailedOnMissingId ==
    /\ pc = "Failed"
    /\ calls # <<>>
    /\ calls[Len(calls)].op = "bundleSchema"
    /\ LET doc == FileAt(disk, BaseName(changedSchemas[idx].input))
       IN  Parses(doc) /\ doc.id = NoId
\* No put was issued, no request went to the text-generation service, and no
\* declaration file was written.
NoPartialWork ==
    /\ NetworkCalls = {}
    /\ DOMAIN bucket = {}
    /\ \A p \in OutputPaths : typesDir[p] = Committed

\* C13 (as claimed): when the run has failed on a missing environment value
\* or on a target document without $id, no put was issued, no request went to
\* the text-generation service and no declaration file was written.
C13_ConfigurationErrorIsPreFlight ==
    (FailedOnEnv \/ FailedOnMissingId) => NoPartialWork

\* The invocations of uploadToR2: each prints its key before it sends.
PublisherInvocations == {k \in 1..Len(console) : console[k].text = "Uploading to R2:"}
\* The put at position k of the log has not completed.
NotCompleted(k) == calls[k].arg \notin DOMAIN bucket
\* The process is suspended at the put it issued last.
AwaitingPut == pc = "ProcessingSchema" /\ step = "awaitPut"

\* C14: in one run the version-control query is issued at most once, the
\* text-generation service is called at most once for each descriptor, every
\* invocation of the publisher issues one put and no key is put twice; a put
\* that did not complete is the last call of the run, and unless it is still
\* awaited the run has ended with a non-zero code.
C14_NothingRetried ==
    /\ Cardinality(GitCalls) <= 1
    /\ \A i \in 1..Len(SCHEMAS) :
          Cardinality(CallsOf("messages.create", SCHEMAS[i].input)) <= 1
    /\ Cardinality(PublisherInvocations) = Cardinality(PutCalls)
    /\ \A k, l \in PutCalls : calls[k].arg = calls[l].arg => k = l
    /\ \A k \in PutCalls :
          NotCompleted(k) =>
              /\ k = Len(calls)
              /\ AwaitingPut \/ (pc = "Failed" /\ exitCode = 1)

\* The put of the bundle of the first of two changed descriptors was rejected,
\* after the raw uploads went through.
C14_Witness ==
    /\ pc = "Failed"
    /\ Len(changedSchemas) = 2
    /\ idx = 1
    /\ Cardinality(PutCalls) = 3
    /\ calls[Len(calls)].op = "put"
    /\ calls[Len(calls)].arg = changedSchemas[1].r2Keys.bundled
    /\ NotCompleted(Len(calls))

\* The input paths of the registry.
InputPaths == {SCHEMAS[i].input : i \in 1..Len(SCHEMAS)}
\* An error was logged together with the input path of a schema.
LoggedWithInputPath ==
    \E k \in 1..Len(console) :
        /\ console[k].stream = "stderr"
        /\ console[k].text = "Failed to process"
        /\ console[k].arg \in InputPaths

\* C15 (as claimed): when a run that passed the environment check has ended
\* on an error (of the version-control query, of a raw-schema put or of a step
\* of processing a descriptor), the error was logged with the input path of
\* the offending schema.
C15_EveryErrorLoggedWithInputPath ==
    (pc = "Failed" /\ EnvValid) => LoggedWithInputPath

\* The version-control query was issued and detectChangedSchemas did not return.
GitQueryFailed == GitCalls # {} /\ ~DetectorReturned
\* The puts of raw schema files: their key is a bare file name of schema/.
RawPuts == {k \in PutCalls : calls[k].arg \in SchemaDirNames}
\* A step of processing some descriptor has been executed.
ProcessingStarted == \E i \in 1..Len(SCHEMAS) : StepsOf(SCHEMAS[i]) # {}

\* C16: after a failed version-control query the run has ended with a non-zero
\* code and the query is its only call; after a raw-schema put that did not
\* complete the run has ended with a non-zero code, that put is its last call
\* and no step of processing a descriptor was executed; a put of a bundle that
\* did not complete is the last call, and once it is settled the run has ended.
C16_TransportFailureAborts ==
    /\ GitQueryFailed =>
          /\ pc = "Failed" /\ exitCode = 1
          /\ calls = <<GitQuery>>
          /\ DOMAIN bucket = {}
    /\ \A k \in RawPuts :
          NotCompleted(k) =>
              /\ pc = "Failed" /\ exitCode = 1
              /\ k = Len(calls)
              /\ ~ProcessingStarted
              /\ ~RawStageDone
    /\ \A k \in PutCalls \ RawPuts :
          (NotCompleted(k) /\ ~AwaitingPut) =>
              /\ pc = "Failed" /\ exitCode = 1
              /\ k = Len(calls)

\* Two raw schema files were enumerated, the first was stored and the put of
\* the second was rejected.
C16_Witness ==
    /\ Len(rawFiles) = 2
    /\ rawIdx = 2
    /\ pc = "Failed"
    /\ Cardinality(RawPuts) = 2
    /\ rawFiles[1] \in DOMAIN bucket
    /\ NotCompleted(Len(calls))

\* The run at position k of the log made CLAUDE.md a regular file.
Created(k) == hookLog[k].before.kind # "file" /\ hookLog[k].after.kind = "file"

\* C17: a run of the hook creates CLAUDE.md only when swell.json is a regular
\* file, the app id extracted from it is not empty and CLAUDE.md was absent,
\* and the file created carries that app id; a run that finds a CLAUDE.md
\* leaves it as it is; and once a run has created CLAUDE.md, every later run
\* leaves the app directory as that run left it.
C17_HookCreatesOnce ==
    /\ \A k \in 1..Len(hookLog) :
          /\ Created(k) =>
                /\ hookLog[k].json.kind = "file"
                /\ AppId(hookLog[k].json, hookLog[k].jq) # ""
                /\ hookLog[k].before = NoFile
                /\ hookLog[k].after = HookContent(AppId(hookLog[k].json, hookLog[k].jq))
          /\ ~Created(k) => hookLog[k].after = hookLog[k].before
          /\ hookLog[k].before.kind = "file" => hookLog[k].after = hookLog[k].before
    /\ \A k, l \in 1..Len(hookLog) :
          (Created(k) /\ k < l) => hookLog[l].after = hookLog[k].after
    /\ hookLog # <<>> => claudeMd = hookLog[Len(hookLog)].after

\* The first run created CLAUDE.md for app_a; swell.json was then given another
\* id, and the second run left CLAUDE.md as it was.
C17_Witness ==
    /\ Len(hookLog) = 2
    /\ Created(1)
    /\ hookLog[1].json.id = "app_a"
    /\ hookLog[2].json.kind = "file"
    /\ AppId(hookLog[2].json, hookLog[2].jq) = "app_b"
    /\ claudeMd = HookContent("app_a")

\* The phase of the orchestrator: the raw upload, while it runs, belongs to the
\* phase ChangesDetected, which ends when uploadRawSchemas returns.
PhaseOf(p) == IF p = "UploadingRaw" THEN "ChangesDetected" ELSE p
PhaseRank(p) ==
    CASE PhaseOf(p) = "Init" -> 0
      [] PhaseOf(p) = "EnvValidated" -> 1
      [] PhaseOf(p) = "ChangesDetected" -> 2
      [] PhaseOf(p) = "RawUploaded" -> 3
      [] PhaseOf(p) = "ProcessingSchema" -> 4
      [] PhaseOf(p) \in {"Done", "Failed"} -> 5
\* A step of the orchestrator as the phases allow it.  The detector and the
\* test of its result run in one step, so the short-circuit on an empty change
\* set shows as a step from EnvValidated to Done.
PhaseStep ==
    /\ pc \in {"Done", "Failed"} => (pc' = pc /\ exitCode' = exitCode)
    /\ PhaseRank(pc') >= PhaseRank(pc)
    /\ idx' >= idx
    /\ (PhaseOf(pc') # PhaseOf(pc) /\ pc' # "Failed") =>
          \/ PhaseRank(pc') = PhaseRank(pc) + 1
          \/ /\ pc = "EnvValidated" /\ pc' = "Done"
             /\ changedSchemas' = <<>>
             /\ calls' = Append(calls, GitQuery)
    /\ (pc = "RawUploaded" /\ pc' = "ProcessingSchema") => idx' = 1
    /\ (pc = "ProcessingSchema" /\ pc' = "ProcessingSchema") => idx' \in {idx, idx + 1}
    /\ (pc = "ProcessingSchema" /\ pc' = "Done") => idx = Len(changedSchemas) + 1
    /\ pc' = "Done" => exitCode' = 0
    /\ pc' = "Failed" => exitCode' = 1

\* C18: every step of a run keeps the phase or moves it forward by one, to
\* Failed, or (on an empty change set only) from the detection to Done; the
\* descriptors are entered as 1, 2, .., n and Done follows the n-th; nothing
\* follows Done or Failed, and Done goes with code 0, Failed with code 1.
C18_PhasesMoveForward == [][PhaseStep]_vars

\* A run went through every phase with one changed descriptor and is Done.
C18_Witness ==
    /\ pc = "Done"
    /\ Len(changedSchemas) = 1
    /\ RawStageDone
    /\ idx = 2

\* The positions of the four steps of processing a descriptor in the log.
Generated(c) == CallsOf("generateTypes", c.input) \cup CallsOf("messages.create", c.input)
Written(c) == CallsOf("writeFile", c.output)
Bundled(c) == CallsOf("bundleSchema", c.input) \cup CallsOf("bundle", c.input)
Published(c) == CallsOf("put", c.r2Keys.bundled)
\* writeFileSync threw on the declaration file of the descriptor: the catch of
\* main ended the run at that call.
WriteThrew(c) == pc = "Failed" /\ calls[Len(calls)] = Call("writeFile", c.output)
\* Every call of the first set comes before every call of the second.
Precede(S, T) == \A k \in S, l \in T : k < l

\* C19: for every descriptor, the declaration is written only after the
\* generator ran and returned a declaration, the bundler runs only after the
\* declaration was written (a write that throws ends the run, and nothing
\* follows it), and the bundle is put (and stored) only after the
\* bundler ran and produced the bundle of the descriptor's $id; so a stored
\* bundle goes with a declaration file written in this run.
C19_StepsInFixedOrder ==
    \A i \in 1..Len(SCHEMAS) :
        LET c == SCHEMAS[i]
        IN  /\ Written(c) # {} =>
                  /\ CallsOf("messages.create", c.input) # {}
                  /\ Precede(Generated(c), Written(c))
                  /\ typesDir[c.output] # Committed \/ WriteThrew(c)
            /\ Bundled(c) # {} =>
                  /\ Written(c) # {} /\ Precede(Written(c), Bundled(c))
                  /\ typesDir[c.output] # Committed
            /\ Published(c) # {} =>
                  /\ CallsOf("bundle", c.input) # {}
                  /\ Precede(Bundled(c), Published(c))
                  /\ \A k \in Published(c) :
                        calls[k].Body.json.root.id = disk[BaseName(c.input)].id
            /\ c.r2Keys.bundled \in DOMAIN bucket =>
                  /\ Published(c) # {}
                  /\ typesDir[c.output] # Committed
            /\ typesDir[c.output] # Committed => Written(c) # {}

\* The first of two changed descriptors went through its four steps and the
\* second has not begun.
C19_Witness ==
    /\ Len(changedSchemas) = 2
    /\ pc = "ProcessingSchema"
    /\ step = "start"
    /\ idx = 2
    /\ changedSchemas[1].r2Keys.bundled \in DOMAIN bucket
    /\ Generated(changedSchemas[2]) = {}

\* The steps of processing descriptors: every call after the raw uploads.
ProcessingSteps == {k \in 1..Len(calls) : k >= FirstGenerate}

\* C20: while the raw upload runs, no step of processing a descriptor has been
\* executed and no declaration was written; and once such a step has been
\* executed, uploadRawSchemas has returned, every file it enumerated (every
\* raw schema file of the directory) was put and is stored, and all these puts
\* precede every step of processing.
C20_RawUploadBeforeProcessing ==
    /\ pc \in {"Init", "EnvValidated", "ChangesDetected", "UploadingRaw"} =>
          /\ ~ProcessingStarted
          /\ \A p \in OutputPaths : typesDir[p] = Committed
          /\ \A i \in 1..Len(SCHEMAS) : SCHEMAS[i].r2Keys.bundled \notin DOMAIN bucket
    /\ ProcessingStarted =>
          /\ RawStageDone
          /\ rawFiles = ListSchemaFiles(disk, dirOrder)
          /\ \A f \in Range(rawFiles) :
                /\ f \in DOMAIN bucket
                /\ \E k \in RawPuts : calls[k].arg = f
          /\ Precede(RawPuts, ProcessingSteps)
          /\ RawPuts \cup GitCalls = 1..(FirstGenerate - 1)

\* Two raw schema files are stored and the first generation request is out.
C20_Witness ==
    /\ pc = "ProcessingSchema"
    /\ step = "awaitClaude"
    /\ idx = 1
    /\ Len(rawFiles) = 2
    /\ Cardinality(RawPuts) = 2
    /\ Cardinality(ProcessingSteps) = 3

\* The lines of the output as detectChangedSchemas splits them.
OutputLines == IF gitOutput = NotRun THEN {} ELSE Range(gitOutput)
\* The line is the path of a schema document of the governed directory, and
\* not of a bundled artifact.
UnderSchemaDir(f) == Len(f) > 0 /\ f[1] = "schema/"
IsSchemaPath(f) ==
    /\ UnderSchemaDir(f)
    /\ f[Len(f)] = ".json"
    /\ \A k \in 1..Len(f) : f[k] \notin {".bundled", "schema-bundle/", "bundle"}
Selected(c) == \E k \in 1..Len(changedSchemas) : changedSchemas[k] = c

\* C21: the detector selects a descriptor exactly when its input path is a
\* line of the output of the version-control query, and every such path ends
\* in .json, lies under schema/ and holds no "bundle"; the filtered list holds
\* exactly the lines of that shape, so blank lines, bundled artifacts and
\* other files select nothing.
C21_SelectedIffInputListed ==
    gitOutput # NotRun =>
        /\ \A i \in 1..Len(SCHEMAS) :
              /\ Selected(SCHEMAS[i]) <=> SCHEMAS[i].input \in OutputLines
              /\ Selected(SCHEMAS[i]) => IsSchemaPath(SCHEMAS[i].input)
        /\ \A k \in 1..Len(changedSchemas) : changedSchemas[k] \in Range(SCHEMAS)
        /\ Range(changedFiles) = {f \in OutputLines : f # <<>> /\ IsSchemaPath(f)}

\* The output listed a blank line, a bundled artifact and the schema file of a
\* subdirectory that has a descriptor's bare name: nothing is selected.
C21_Witness ==
    /\ gitOutput = <<Join("schema/", BundledJson), BlankLine, NestedModelJson>>
    /\ changedSchemas = <<>>
    /\ changedFiles = <<NestedModelJson>>

\* The position of a descriptor in the registry.
RegistryIndex(c) == CHOOSE i \in 1..Len(SCHEMAS) : SCHEMAS[i] = c

\* C22: the list the detector returns holds registered descriptors in strictly
\* increasing registry position (so without duplicates), and it is the same
\* for every output with the same set of lines.
C22_RegistryOrder ==
    gitOutput # NotRun =>
        /\ \A k \in 1..Len(changedSchemas) : changedSchemas[k] \in Range(SCHEMAS)
        /\ \A k, l \in 1..Len(changedSchemas) :
              k < l => RegistryIndex(changedSchemas[k]) < RegistryIndex(changedSchemas[l])
        /\ \A out \in DetectorOutputs :
              Range(out) = Range(gitOutput) =>
                  ChangedSchemas(ChangedFiles(out)) = changedSchemas

\* The output listed webhook, content, webhook, and the detector returned
\* content before webhook, once each.
C22_Witness ==
    /\ gitOutput = <<Join("schema/", WebhookJson), ContentInput, Join("schema/", WebhookJson)>>
    /\ changedSchemas = <<Descriptor("content"), Descriptor("webhook")>>

\* The text blocks of the response, by position.
TextBlocksOf(m) == {b \in 1..Len(m) : m[b].type = "text"}
\* Block b is the first text block of the response.
IsFirstText(m, b) == b \in TextBlocksOf(m) /\ \A j \in TextBlocksOf(m) : b <= j
\* Positions i < j of the text hold an opening and a closing tag.
SpanAt(t, i, j) ==
    /\ i \in 1..Len(t) /\ j \in 1..Len(t) /\ i < j
    /\ t[i] = "<result>" /\ t[j] = "</result>"
\* The span from i to j is the first of the text: no span opens before i, and
\* no closing tag stands between i and j.
FirstSpanAt(t, i, j) ==
    /\ SpanAt(t, i, j)
    /\ \A k \in 1..(i - 1) : \A l \in 1..Len(t) : ~SpanAt(t, k, l)
    /\ \A l \in (i + 1)..(j - 1) : t[l] # "</result>"
\* The first text block of the response holds a span.
FirstTextHasSpan(m) ==
    \E b \in TextBlocksOf(m) :
        IsFirstText(m, b) /\ \E i, j \in 1..Len(m[b].text) : SpanAt(m[b].text, i, j)
\* The generation gave the trimmed, formatted content of the first span of the
\* first text block.
TookFirstSpan(m, g) ==
    \E b \in TextBlocksOf(m) :
        /\ IsFirstText(m, b)
        /\ \E i, j \in 1..Len(m[b].text) :
              /\ FirstSpanAt(m[b].text, i, j)
              /\ g.text = [formatted |-> Trim(SubSeq(m[b].text, i + 1, j - 1))]

\* C23 (as claimed): generateTypes succeeds exactly when the first text block
\* of the response holds a result span, and then on the first span of that
\* block; with no text block, or a span in a later text block only, it fails.
C23_SucceedsIffFirstTextHasSpan ==
    generation.outcome # "not run" =>
        /\ generation.outcome = "ok" <=> FirstTextHasSpan(response)
        /\ generation.outcome = "ok" => TookFirstSpan(response, generation)

\* C23 (amended): the extraction fails exactly when the first text block of the
\* response holds no result span (so with no text block, or with a span in a
\* later text block only); otherwise generateTypes fails only in the
\* formatter, and when it succeeds its text is the formatted first span of
\* that block.
C23_ExtractionIffFirstTextHasSpan ==
    generation.outcome # "not run" =>
        /\ generation.outcome = "noResult" <=> ~FirstTextHasSpan(response)
        /\ generation.outcome \in {"ok", "formatError", "noResult"}
        /\ generation.outcome = "ok" => TookFirstSpan(response, generation)
        /\ generation.outcome # "ok" => generation.text = NoText

\* The first text block, after a thinking block, holds two spans, and the
\* generation gave the content of the first.
C23_Witness ==
    /\ Len(response) = 2
    /\ response[1] = Thinking
    /\ response[2].type = "text"
    /\ response[2].text =
          <<"pre", OpenTag, "decl", CloseTag, "mid", OpenTag, "decl2", CloseTag>>
    /\ generation = Generation("ok", PrettierFormat(<<"decl">>))

\* The document of the descriptor parses and declares no $id.
DeclaresNoId(c) ==
    LET doc == FileAt(disk, BaseName(c.input)) IN Parses(doc) /\ doc.id = NoId
\* Every sibling that can be registered is in the registry under its $id.
SiblingsRegistered ==
    \A f \in Range(ListSchemaFiles(disk, dirOrder)) :
        ~BadSibling(disk[f]) => registry[disk[f].id] # NotRegistered

\* C24: when bundleSchema has been called for a descriptor whose document
\* declares no $id, the siblings are registered, the library's bundle was not
\* invoked for it, no bundle text was put or stored under its key, and the run
\* has ended with a non-zero code.
C24_NoIdFailsAfterRegistration ==
    \A i \in 1..Len(SCHEMAS) :
        LET c == SCHEMAS[i]
        IN  (DeclaresNoId(c) /\ CallsOf("bundleSchema", c.input) # {}) =>
                /\ SiblingsRegistered
                /\ CallsOf("bundle", c.input) = {}
                /\ Published(c) = {}
                /\ c.r2Keys.bundled \notin DOMAIN bucket
                /\ pc = "Failed" /\ exitCode = 1
                /\ FailedAt(idx)
                /\ calls[Len(calls)] = Call("bundleSchema", c.input)

\* bundleSchema was called for model.json, which declares no $id, while
\* content.json declares one and is registered.
C24_Witness ==
    /\ DeclaresNoId(Descriptor("model"))
    /\ CallsOf("bundleSchema", ModelInput) # {}
    /\ Parses(disk[ContentJson])
    /\ disk[ContentJson].id = "urn:b"
    /\ registry["urn:b"] = disk[ContentJson]

\* The descriptor whose processing the call at position k belongs to: the one
\* of the last generateTypes at or before k.
CurrentDescriptor(k) ==
    LET g == CHOOSE j \in 1..k :
                /\ calls[j].op = "generateTypes"
                /\ \A l \in (j + 1)..k : calls[l].op # "generateTypes"
    IN  CHOOSE c \in Range(SCHEMAS) : c.input = calls[g].arg

\* C25: every put names the configured bucket, the cache directive
\* "public, max-age=3600" and the media type application/json; a put of the
\* raw upload has the bare name of an enumerated file as key and the file's
\* content as body; a put during the processing of a descriptor has that
\* descriptor's bundled key and a bundle text as body.
C25_PutsAreWellFormed ==
    \A k \in PutCalls :
        /\ calls[k].Bucket = "R2_BUCKET_NAME"
        /\ calls[k].CacheControl = "public, max-age=3600"
        /\ calls[k].ContentType = "application/json"
        /\ k < FirstGenerate =>
              /\ calls[k].arg \in Range(rawFiles)
              /\ Len(calls[k].arg) = 2
              /\ calls[k].Body = disk[calls[k].arg]
        /\ k > FirstGenerate =>
              /\ calls[k].arg = CurrentDescriptor(k).r2Keys.bundled
              /\ calls[k].arg = <<"schema-bundle/">> \o
                                SubSeq(CurrentDescriptor(k).input, 2, 2) \o <<".bundled", ".json">>
              /\ calls[k].Body.indent = 2
              /\ calls[k].Body.json.root.kind = "schema"

\* Two raw files and the bundles of two descriptors were put.
C25_Witness ==
    /\ Cardinality(PutCalls) = 4
    /\ Cardinality(RawPuts) = 2
    /\ Published(Descriptor("model")) # {}
    /\ Published(Descriptor("content")) # {}

\* What bundleSchema gives for the descriptor in a process that has bundled
\* nothing before.
FreshBundle(c) ==
    BundleSchema(EmptyRegistry, BaseName(c.input), disk, dirOrder, dupPolicy).out
\* The text handed to the formatter is the span of the response just received.
FormatsOwnResponse ==
    (pc = "ProcessingSchema" /\ step = "awaitPrettier") =>
        pending = Extracted(ExtractResult(ResponseText(msg)).content)
\* Every bundle put, and every bundle stored, is the fresh bundle of its
\* descriptor.
BundlesAreFresh ==
    /\ \A k \in PutCalls :
          k > FirstGenerate => calls[k].Body = FreshBundle(CurrentDescriptor(k))
    /\ \A i \in 1..Len(SCHEMAS) :
          SCHEMAS[i].r2Keys.bundled \in DOMAIN bucket =>
              bucket[SCHEMAS[i].r2Keys.bundled] = FreshBundle(SCHEMAS[i])
\* A step that writes a declaration writes the formatted span of the response
\* of the descriptor being processed, to that descriptor's output path only.
WritesOwnDeclaration ==
    typesDir' # typesDir =>
        typesDir' = [typesDir EXCEPT ![changedSchemas[idx].output] =
                        PrettierFormat(ExtractResult(ResponseText(msg)).content)]

\* C26: the declaration written for a descriptor is a function of the response
\* received for it, and the bundle put for it is the one a process that has
\* processed nothing before would produce from the same directory: neither
\* depends on the descriptors processed earlier in the run.
C26_IterationsIndependent ==
    /\ [](FormatsOwnResponse /\ BundlesAreFresh)
    /\ [][WritesOwnDeclaration]_vars

\* Two descriptors were processed, the first one's bundle embedding the
\* document of the second; the second was bundled on the registry the first
\* iteration left, and its bundle holds its own document alone.
C26_Witness ==
    /\ pc = "Done"
    /\ changedSchemas = <<Descriptor("model"), Descriptor("content")>>
    /\ bucket[Descriptor("model").r2Keys.bundled].json.defs = <<disk[ContentJson]>>
    /\ bucket[Descriptor("content").r2Keys.bundled].json.root = disk[ContentJson]
    /\ bucket[Descriptor("content").r2Keys.bundled].json.defs = <<>>
    /\ typesDir[Descriptor("content").output] # Committed

\* The completions of puts to the key, by position in the log.
CompletionsOf(key) == {k \in 1..Len(completions) : completions[k].key = key}
LastCompletion(key) == CHOOSE k \in CompletionsOf(key) : \A l \in CompletionsOf(key) : l <= k
\* The run has completed every put it had to issue.
RunFinished(r) == storeRuns[r].next = Len(RunPuts(r)) + 1

\* C27: no command of a run carries a condition or reads the store, and the
\* store holds under every key the body of the put to that key that completed
\* last, whichever run issued it; keys no put completed for are not held.
C27_LastWriteWins ==
    /\ \A r \in StoreRuns : \A k \in 1..Len(RunPuts(r)) :
          /\ RunPuts(r)[k].op = "put"
          /\ DOMAIN RunPuts(r)[k] =
                {"op", "arg", "Bucket", "Body", "ContentType", "CacheControl"}
    /\ DOMAIN bucket = {completions[k].key : k \in 1..Len(completions)}
    /\ \A key \in DOMAIN bucket : bucket[key] = completions[LastCompletion(key)].body

\* Both runs completed all their puts; the put of model.json of the run on the
\* older commit completed last, and the store holds the older document.
C27_Witness ==
    /\ \A r \in StoreRuns : RunFinished(r)
    /\ completions[LastCompletion(ModelJson)].run = "older"
    /\ bucket[ModelJson] = disk[ModelJson]
    /\ bucket[ModelJson] # RunDisk("newer")[ModelJson]
    /\ completions[Len(completions)].run = "newer"

\* The process has ended.
Terminated == pc \in {"Done", "Failed"}
\* An exception was thrown and reported: by validateEnv, by the catch of main,
\* or by the runtime for a rejection that left main.
FailureReported ==
    \E k \in 1..Len(console) :
        /\ console[k].stream = "stderr"
        /\ console[k].text \in {"Error: Missing required environment variable",
                                "Failed to process", "Uncaught"}
\* A run that ended without having processed every changed descriptor ended in
\* the short-circuit on an empty change set or in a reported failure; a run
\* that has not ended has reported no failure.
StopsEarlyOnlyByShortCircuitOrFailure ==
    /\ (Terminated /\ ~(DetectorReturned /\ AllProcessed)) =>
          /\ pc = "Failed" /\ exitCode = 1
          /\ FailureReported
    /\ (Terminated /\ DetectorReturned /\ changedSchemas = <<>>) =>
          /\ pc = "Done"
          /\ Printed("stdout", "No schema changes detected. Nothing to process.")
    /\ pc = "Done" => ~FailureReported
    /\ ~Terminated => ~FailureReported

\* C28: a run ends before every changed descriptor is processed only in the
\* short-circuit on an empty change set or in a thrown failure; and, every
\* awaited call settling eventually, every run ends in Done or Failed.
C28_RunsEnd ==
    /\ []StopsEarlyOnlyByShortCircuitOrFailure
    /\ <>Terminated

\* The run ended in a failure of the second of two changed descriptors, the
\* first having been processed.
C28_Witness ==
    /\ pc = "Failed"
    /\ Len(changedSchemas) = 2
    /\ idx = 2
    /\ FailedAt(2)
    /\ changedSchemas[1].r2Keys.bundled \in DOMAIN bucket

\* The entries of the types directory whose name ends in .d.ts, in the order
\* the directory is listed.
DeclarationsListed == SelectSeq(typesListing, LAMBDA f : f[Len(f)] = ".d.ts")
\* The four storage values are present.
SyncEnvValid ==
    \A v \in {"R2_ACCOUNT_ID", "R2_ACCESS_KEY_ID", "R2_SECRET_ACCESS_KEY", "R2_BUCKET_NAME"} :
        env[v] = "set"
\* The put of a declaration file: its text under types/<file name>.
MirrorPut(file) ==
    [ op |-> "put", arg |-> <<"types/">> \o file, Bucket |-> "R2_BUCKET_NAME",
      Body |-> [kind |-> "text", of |-> file],
      ContentType |-> "application/typescript",
      CacheControl |-> "public, max-age=3600" ]
\* The keys the store holds are those of the first n declaration files listed.
MirroredUpTo(n) ==
    /\ DOMAIN bucket = {<<"types/">> \o DeclarationsListed[k] : k \in 1..n}
    /\ \A k \in 1..n :
          bucket[<<"types/">> \o DeclarationsListed[k]] =
             [kind |-> "text", of |-> DeclarationsListed[k]]
SyncRejected == pc = "Failed" /\ Printed("stderr", "Failed to upload types:")
                /\ console[Len(console)].arg = "put rejected"

\* C29: the sync-types script puts the listed files whose name ends in .d.ts,
\* in the order listed, each under types/<file name> as
\* application/typescript, and only if the four storage values are present;
\* it needs neither the registry nor the changed schemas; a run that ends in
\* Done has put every one of them; a run whose put is rejected exits with code
\* 1 having sent no put for the files after it.
C29_FullMirror ==
    /\ Len(calls) <= Len(DeclarationsListed)
    /\ \A k \in 1..Len(calls) : calls[k] = MirrorPut(DeclarationsListed[k])
    /\ calls # <<>> => SyncEnvValid
    /\ pc = "SyncAwaitPut" => MirroredUpTo(Len(calls) - 1)
    /\ pc = "Done" =>
          /\ exitCode = 0
          /\ Len(calls) = Len(DeclarationsListed)
          /\ MirroredUpTo(Len(DeclarationsListed))
    /\ pc = "Failed" => exitCode = 1
    /\ SyncRejected =>
          /\ calls # <<>>
          /\ MirroredUpTo(Len(calls) - 1)

\* The second of three declaration files was rejected: the first, which no
\* descriptor names, is in the store, the third was never sent; the key of the
\* text-generation service, which this script does not require, is absent.
C29_Witness ==
    /\ SyncRejected
    /\ Len(DeclarationsListed) = 3
    /\ Len(calls) = 2
    /\ DeclarationsListed[1] = <<"extra", ".d.ts">>
    /\ <<"types/", "extra", ".d.ts">> \in DOMAIN bucket
    /\ env["ANTHROPIC_API_KEY"] # "set"

\* The lines that announce the stages of processing a descriptor, in the order
\* of the source.
StageTexts ==
    << "--- Processing ---", "Converting to TypeScript...",
       "Sending to Claude for cleanup...", "Written types to", "Bundling schema...",
       "Uploading to R2:" >>
\* The position of the line that opens the processing of the descriptor, 0 if
\* it was not printed.
ProcessingLine(c) ==
    IF \E k \in 1..Len(console) :
          console[k].text = "--- Processing ---" /\ console[k].arg = c.input
    THEN CHOOSE k \in 1..Len(console) :
          console[k].text = "--- Processing ---" /\ console[k].arg = c.input
    ELSE 0
\* The last line of the descriptor's part of the console: the line before the
\* next descriptor's opening line, or the last line printed.
SegmentEnd(c) ==
    LET later == {k \in (ProcessingLine(c) + 1)..Len(console) :
                     console[k].text = "--- Processing ---"}
    IN  IF later = {} THEN Len(console)
        ELSE (CHOOSE k \in later : \A l \in later : k <= l) - 1
\* The stage lines printed for the descriptor, in the order printed.
StageLinesOf(c) ==
    IF ProcessingLine(c) = 0 THEN <<>>
    ELSE LET segment == SubSeq(console, ProcessingLine(c), SegmentEnd(c))
             texts == [k \in 1..Len(segment) |-> segment[k].text]
         IN  SelectSeq(texts, LAMBDA t : t \in Range(StageTexts))
IsPrefix(s, t) == Len(s) <= Len(t) /\ s = SubSeq(t, 1, Len(s))
Last(s) == s[Len(s)]
\* The lines of the stages that print before they work: no call of the stage
\* is made without its line among the stage lines of the descriptor.
AnnouncedBeforeWork(c, lines) ==
    /\ CallsOf("generateTypes", c.input) # {} => "--- Processing ---" \in Range(lines)
    /\ CallsOf("json2ts", BaseName(c.input)) # {} =>
          "Converting to TypeScript..." \in Range(lines)
    /\ CallsOf("messages.create", c.input) # {} =>
          "Sending to Claude for cleanup..." \in Range(lines)
    /\ Bundled(c) # {} => "Bundling schema..." \in Range(lines)
    /\ Published(c) # {} => "Uploading to R2:" \in Range(lines)
\* The run ended in the catch of main while processing the descriptor.
FailedIn(c) ==
    /\ pc = "Failed"
    /\ idx \in 1..Len(changedSchemas)
    /\ changedSchemas[idx] = c
    /\ FailedAt(idx)
\* The call the run ended at.
LastCall == calls[Len(calls)]
\* The last stage line of a run that ended at a call of the converter, of the
\* generation service (or of the formatter that follows it), of the bundler
\* or of the store.
LastLineNamesStage(lines) ==
    /\ LastCall.op = "json2ts" =>
          Last(lines) \in {"Converting to TypeScript...", "Sending to Claude for cleanup..."}
    /\ LastCall.op = "messages.create" => Last(lines) = "Sending to Claude for cleanup..."
    /\ LastCall.op \in {"bundleSchema", "bundle"} => Last(lines) = "Bundling schema..."
    /\ LastCall.op = "put" => Last(lines) = "Uploading to R2:"

\* C30 (as claimed): the stage lines of a descriptor come in the order
\* Processing, Converting, Sending, Written, Bundling, Uploading; each is
\* printed before the work of its stage, the write of the declaration file
\* included; and the last stage line of a run that failed in a step of a
\* descriptor is the line of the stage that failed.
C30_LastStageLineIdentifiesFailure ==
    \A i \in 1..Len(SCHEMAS) :
        LET c == SCHEMAS[i]
            lines == StageLinesOf(c)
        IN  /\ IsPrefix(lines, StageTexts)
            /\ AnnouncedBeforeWork(c, lines)
            /\ Written(c) # {} => "Written types to" \in Range(lines)
            /\ FailedIn(c) =>
                  /\ LastLineNamesStage(lines)
                  /\ LastCall.op = "writeFile" => Last(lines) = "Written types to"

\* C30: the stage lines of a descriptor come in the order Processing,
\* Converting, Sending, Written, Bundling, Uploading; Processing, Converting,
\* Sending, Bundling and Uploading are printed before the work of their stage,
\* Written only once the declaration file is written; the last stage line of a
\* run that failed in a step of a descriptor is the line of the stage that
\* failed, except that a failed write of the declaration file leaves the
\* Sending line last.
C30_StageLinesInOrder ==
    \A i \in 1..Len(SCHEMAS) :
        LET c == SCHEMAS[i]
            lines == StageLinesOf(c)
        IN  IF ProcessingLine(c) = 0
            THEN StepsOf(c) = {}
            ELSE /\ IsPrefix(lines, StageTexts)
                 /\ AnnouncedBeforeWork(c, lines)
                 /\ "Written types to" \in Range(lines) =>
                       /\ Written(c) # {}
                       /\ typesDir[c.output] # Committed
                 /\ FailedIn(c) =>
                       /\ LastLineNamesStage(lines)
                       /\ LastCall.op = "writeFile" =>
                             /\ Last(lines) = "Sending to Claude for cleanup..."
                             /\ typesDir[c.output] = Committed

\* The write of the second descriptor's declaration file threw: the first
\* descriptor has all six stage lines, the second ends at the Sending line.
C30_Witness ==
    /\ Len(changedSchemas) = 2
    /\ FailedIn(changedSchemas[2])
    /\ LastCall.op = "writeFile"
    /\ StageLinesOf(changedSchemas[1]) = StageTexts
    /\ Last(StageLinesOf(changedSchemas[2])) = "Sending to Claude for cleanup..."

\* The puts of a key issued in this run.
PutsOf(key) == CallsOf("put", key)
\* The run ended in Done with the summary printed and code 0, having found
\* something to process.
DoneWithChanges ==
    /\ pc = "Done"
    /\ changedSchemas # <<>>

\* C31: a run that ended in Done with a non-empty change set printed the
\* summary and exited with code 0; every changed descriptor had its
\* declaration file written once and its bundle put once, and both are in
\* place; every raw schema file enumerated was put once and is in the store.
C31_DoneMeansAllPublishedOnce ==
    DoneWithChanges =>
        /\ exitCode = 0
        /\ Printed("stdout", "All changed schemas processed successfully")
        /\ \A i \in 1..Len(changedSchemas) :
              LET c == changedSchemas[i]
              IN  /\ Cardinality(Written(c)) = 1
                  /\ typesDir[c.output] # Committed
                  /\ Cardinality(PutsOf(c.r2Keys.bundled)) = 1
                  /\ c.r2Keys.bundled \in DOMAIN bucket
        /\ rawFiles # <<>>
        /\ \A k \in 1..Len(rawFiles) :
              /\ Cardinality(PutsOf(rawFiles[k])) = 1
              /\ rawFiles[k] \in DOMAIN bucket
              /\ bucket[rawFiles[k]] = disk[rawFiles[k]]

\* A run over two changed descriptors and two raw schema files ended in Done.
C31_Witness ==
    /\ DoneWithChanges
    /\ Len(changedSchemas) = 2
    /\ Len(rawFiles) = 2
    /\ Cardinality(DOMAIN bucket) = 4

\* The declaration file of the descriptor has been written in this run.
DeclarationWritten(c) == typesDir[c.output] # Committed
\* The bundle of the descriptor is in the store.
BundlePublished(c) == c.r2Keys.bundled \in DOMAIN bucket
\* The raw schema files enumerated are in the store with what the disk holds.
RawUploadsInPlace ==
    \A k \in 1..Len(rawFiles) :
        /\ rawFiles[k] \in DOMAIN bucket
        /\ bucket[rawFiles[k]] = disk[rawFiles[k]]
\* Whatever a step finds written or stored is still there after it, unchanged.
NothingUndone ==
    /\ \A key \in DOMAIN bucket : key \in DOMAIN bucket' /\ bucket'[key] = bucket[key]
    /\ \A i \in 1..Len(SCHEMAS) :
          DeclarationWritten(SCHEMAS[i]) =>
              typesDir'[SCHEMAS[i].output] = typesDir[SCHEMAS[i].output]

\* C32: nothing is rolled back. In every state a descriptor whose bundle is
\* stored has its declaration file written; when the run has failed at the
\* i-th changed descriptor the raw uploads and the declarations and bundles of
\* the descriptors before it are in place; and no step removes or alters what
\* was written or stored before it.
C32_NoRollback ==
    /\ [](/\ \A i \in 1..Len(SCHEMAS) :
                BundlePublished(SCHEMAS[i]) => DeclarationWritten(SCHEMAS[i])
          /\ (pc = "Failed" /\ idx \in 1..Len(changedSchemas) /\ FailedAt(idx)) =>
                /\ RawUploadsInPlace
                /\ \A j \in 1..(idx - 1) :
                      /\ DeclarationWritten(changedSchemas[j])
                      /\ BundlePublished(changedSchemas[j])
                /\ ~BundlePublished(changedSchemas[idx]))
    /\ [][NothingUndone]_vars

\* The run failed at the second of two changed descriptors after its
\* declaration file was written: the file stays, its bundle is not stored, and
\* the first descriptor's declaration and bundle and the raw uploads stay.
C32_Witness ==
    /\ pc = "Failed"
    /\ Len(changedSchemas) = 2
    /\ idx = 2
    /\ FailedAt(2)
    /\ DeclarationWritten(changedSchemas[2])
    /\ ~BundlePublished(changedSchemas[2])
    /\ BundlePublished(changedSchemas[1])
    /\ rawFiles # <<>>

\* The descriptors main found changed.
ChangedSet == Range(changedSchemas)
\* The keys the raw-schema upload may put: the bare names of the schema files
\* it enumerated.
RawKeys == Range(rawFiles)
BundledKeysOfChanged == {c.r2Keys.bundled : c \in ChangedSet}
TypesKeys == {SCHEMAS[i].r2Keys.types : i \in 1..Len(SCHEMAS)}
\* The calls that write a local file or touch the store.
WriteCalls == {k \in 1..Len(calls) : calls[k].op = "writeFile"}
LocalOrRemoteEffects == {"writeFile", "put"}
ReadOnlyCalls == {GitQuery.op, "generateTypes", "json2ts", "messages.create", "bundleSchema",
                  "bundle"}

\* C33: the only local files written are the output paths of changed
\* descriptors; the only keys put, and the only keys the store holds, are names
\* of raw schema files and bundled keys of changed descriptors, never a types
\* key; the store is touched by puts only, nothing is deleted.
C33_WritesConfinedToChanged ==
    /\ \A k \in WriteCalls : calls[k].arg \in {c.output : c \in ChangedSet}
    /\ \A i \in 1..Len(SCHEMAS) :
          typesDir[SCHEMAS[i].output] # Committed => SCHEMAS[i] \in ChangedSet
    /\ \A k \in PutCalls :
          /\ calls[k].arg \in RawKeys \cup BundledKeysOfChanged
          /\ calls[k].arg \notin TypesKeys
    /\ DOMAIN bucket \subseteq {calls[k].arg : k \in PutCalls}
    /\ \A k \in 1..Len(calls) : calls[k].op \in LocalOrRemoteEffects \cup ReadOnlyCalls

\* A run over one changed descriptor of two on disk ended in Done: the other
\* descriptor's raw file is in the store, its declaration and bundle are not
\* touched.
C33_Witness ==
    /\ pc = "Done"
    /\ changedSchemas = <<Descriptor("model")>>
    /\ <<"content", ".json">> \in DOMAIN bucket
    /\ typesDir[Descriptor("model").output] # Committed
    /\ typesDir[Descriptor("content").output] = Committed
    /\ Descriptor("model").r2Keys.bundled \in DOMAIN bucket
    /\ Descriptor("content").r2Keys.bundled \notin DOMAIN bucket

\* The position of the version-control query of the run in progress, or of the
\* last run.
RunStart ==
    CHOOSE k \in 1..Len(calls) :
        /\ calls[k] = GitQuery
        /\ \A l \in (k + 1)..Len(calls) : calls[l] # GitQuery
\* The descriptor's input is not among the changed files of the run.
NotInDelta(c) == c.input \notin Range(changedFiles)
\* The step leaves the descriptor's bundled key of the store as it was: absent,
\* or holding the body it held.
BundleKeyKept(c) ==
    /\ (c.r2Keys.bundled \in DOMAIN bucket') = (c.r2Keys.bundled \in DOMAIN bucket)
    /\ c.r2Keys.bundled \in DOMAIN bucket =>
            bucket'[c.r2Keys.bundled] = bucket[c.r2Keys.bundled]
\* Since its query, the run has neither bundled the descriptor nor put to its
\* bundled key.
NotBundledInRun(c) ==
    \A k \in (RunStart + 1)..Len(calls) :
        /\ calls[k] # Call("bundleSchema", c.input)
        /\ ~(calls[k].op = "put" /\ calls[k].arg = c.r2Keys.bundled)
\* The bundle bundleSchema computes for the descriptor from the documents now
\* on disk, in a fresh process.
BundleOfDisk(c) ==
    BundleSchema(EmptyRegistry, BaseName(c.input), disk, dirOrder, dupPolicy)
\* A run ended with code 0 and none is in progress.
RunSucceeded == pc = "Idle" /\ exitCode = 0 /\ calls # <<>>

\* C34: in a run, a descriptor whose input is not in the delta is neither
\* bundled nor put, and its key in the store holds what earlier runs left
\* there, whatever the documents it references have become.
C34_BundledOnlyWhenInDelta ==
    /\ [](calls # <<>> =>
            \A i \in 1..Len(SCHEMAS) : NotInDelta(SCHEMAS[i]) => NotBundledInRun(SCHEMAS[i]))
    /\ [][\A i \in 1..Len(SCHEMAS) :
              SCHEMAS[i].input \notin Range(changedFiles') => BundleKeyKept(SCHEMAS[i])]_vars

\* The second run succeeded on a commit that changed only content.json, which
\* model.json references: the store's bundle of the model descriptor is the
\* first run's and differs from the bundle of the documents on disk.
C34_Witness ==
    /\ RunSucceeded
    /\ RunsStarted = 2
    /\ changedSchemas = <<Descriptor("content")>>
    /\ disk[ModelJson].ref = "urn:b"
    /\ Descriptor("model").r2Keys.bundled \in DOMAIN bucket
    /\ BundleOfDisk(Descriptor("model")).status = "ok"
    /\ bucket[Descriptor("model").r2Keys.bundled] # BundleOfDisk(Descriptor("model")).out
    /\ bucket[Descriptor("content").r2Keys.bundled] = BundleOfDisk(Descriptor("content")).out

\* The field takes pairwise distinct values over the registry.
Injective(field(_)) ==
    \A i, j \in 1..Len(SCHEMAS) : i # j => field(SCHEMAS[i]) # field(SCHEMAS[j])
InputOf(c) == c.input
OutputOf(c) == c.output
BundledKeyOf(c) == c.r2Keys.bundled
\* The keys the registry declares.
DeclaredKeys ==
    {SCHEMAS[i].r2Keys.bundled : i \in 1..Len(SCHEMAS)} \cup
    {SCHEMAS[i].r2Keys.types : i \in 1..Len(SCHEMAS)}
\* The path names a directory before the file name.
UnderDirectory(key) == Head(key) \in {"schema/", "schema-bundle/", "types/"}

\* C35: the registry's input paths, output paths and bundled keys are pairwise
\* distinct; every key it declares lies under a directory, while a raw-schema
\* key is a bare file name, so none equals a declared key; and in a run no key
\* is put twice, so no put overwrites what another put of the run stored.
C35_RegistryCollisionFree ==
    /\ Injective(InputOf) /\ Injective(OutputOf) /\ Injective(BundledKeyOf)
    /\ \A key \in DeclaredKeys : UnderDirectory(key)
    /\ \A f \in SchemaDirNames : ~UnderDirectory(f) /\ f \notin DeclaredKeys
    /\ \A k \in RawPuts : calls[k].arg \notin DeclaredKeys
    /\ \A k, l \in PutCalls : k # l => calls[k].arg # calls[l].arg
    /\ Cardinality(DOMAIN bucket) =
          Cardinality({k \in PutCalls : calls[k].arg \in DOMAIN bucket})

\* A run put two raw schema files and the bundles of two descriptors: four
\* puts, four keys in the store.
C35_Witness ==
    /\ pc = "Done"
    /\ Cardinality(RawPuts) = 2
    /\ Cardinality(PutCalls) = 4
    /\ Cardinality(DOMAIN bucket) = 4

\* path.basename of a descriptor's output path: the name the types directory
\* lists its declaration file under.
OutputFileName(c) == SubSeq(c.output, 2, Len(c.output))
\* The puts of the sync-types run whose body is the text of the file.
SyncPutsOf(file) == {k \in 1..Len(calls) : calls[k].op = "put" /\ calls[k].Body.of = file}

\* C36: for every descriptor of the registry, the name of its output file
\* passes the filter of the sync-types script and the key the script builds
\* for it is the descriptor's declared types key; every put the script makes
\* of a descriptor's output file goes to that key.
C36_SyncKeyIsTypesKey ==
    \A i \in 1..Len(SCHEMAS) :
        LET c == SCHEMAS[i]
        IN  /\ Head(c.output) = "types/"
            /\ EndsWith(OutputFileName(c), ".d.ts")
            /\ TypeKey(OutputFileName(c)) = c.r2Keys.types
            /\ \A k \in SyncPutsOf(OutputFileName(c)) : calls[k].arg = c.r2Keys.types

\* The sync-types run ended in Done having put the declaration files of the
\* model and content descriptors: the store holds them under their types keys.
C36_Witness ==
    /\ pc = "Done"
    /\ SyncPutsOf(OutputFileName(Descriptor("model"))) # {}
    /\ SyncPutsOf(OutputFileName(Descriptor("content"))) # {}
    /\ Descriptor("model").r2Keys.types \in DOMAIN bucket
    /\ Descriptor("content").r2Keys.types \in DOMAIN bucket

====
